---- MODULE Spec2Model ----
(***************************************************************************)
(* Resolution-and-aggregation core of the listings dashboard:              *)
(*   normalizeLocationPart, extractLocationCandidates,                     *)
(*   buildPortugalAdminIndex, resolveAdminHierarchy, inferTypologyLabel    *)
(*   and the paginated pass of getImportDashboardMetrics.                  *)
(*                                                                         *)
(* A JavaScript string is a sequence of one-character strings; null and    *)
(* undefined are the value NULL, which is no text.                         *)
(***************************************************************************)
EXTENDS Integers, Sequences, FiniteSets, TLC

NULL == <<"<null>">>

IsNull(v) == v = NULL

\* String(value ?? "")
OrEmpty(v) == IF IsNull(v) THEN <<>> ELSE v

(***************************************************************************)
(* Characters                                                              *)
(***************************************************************************)
\* U+0301 COMBINING ACUTE ACCENT and U+0303 COMBINING TILDE, of the range
\* U+0300..U+036F that normalizeLocationPart strips.
CombiningAcute == "<U+0301>"
CombiningTilde == "<U+0303>"
CombiningMarks == {CombiningAcute, CombiningTilde}

\* \s of a JavaScript regular expression, and what String.prototype.trim removes.
NBSP == "<U+00A0>"
Whitespace == {" ", "\t", "\n", NBSP}

IsSpace(c) == c \in Whitespace

\* The character class [,\-|/;()] of extractLocationCandidates.
Delimiters == {",", "-", "|", "/", ";", "(", ")"}

\* A class that also takes blanks for delimiters: [,\-|/;()\s]
IsDelimiterOrSpace(c) == c \in Delimiters \cup Whitespace

IsDelimiter(c) == c \in Delimiters

Digits == <<"0", "1", "2", "3", "4", "5", "6", "7", "8", "9">>

IsDigit(c) == \E i \in 1..Len(Digits) : Digits[i] = c

UpperLetters == <<"A", "B", "C", "D", "E", "F", "G", "H", "I", "J", "K", "L", "M",
                  "N", "O", "P", "Q", "R", "S", "T", "U", "V", "W", "X", "Y", "Z">>
LowerLetters == <<"a", "b", "c", "d", "e", "f", "g", "h", "i", "j", "k", "l", "m",
                  "n", "o", "p", "q", "r", "s", "t", "u", "v", "w", "x", "y", "z">>

IsUpper(c) == \E i \in 1..Len(UpperLetters) : UpperLetters[i] = c
IsLower(c) == \E i \in 1..Len(LowerLetters) : LowerLetters[i] = c

\* Canonical decompositions (NFD) of the precomposed letters the texts use.
Decompositions ==
    { <<"É", <<"E", CombiningAcute>> >>, <<"é", <<"e", CombiningAcute>> >>,
      <<"Ã", <<"A", CombiningTilde>> >>, <<"ã", <<"a", CombiningTilde>> >> }

\* String.prototype.normalize("NFD") on one character.
NFDChar(c) ==
    IF \E d \in Decompositions : d[1] = c
    THEN (CHOOSE d \in Decompositions : d[1] = c)[2]
    ELSE <<c>>

\* String.prototype.toLowerCase on one character.
LowerChar(c) ==
    CASE IsUpper(c) -> LowerLetters[CHOOSE i \in 1..Len(UpperLetters) : UpperLetters[i] = c]
      [] c = "É" -> "é"
      [] c = "Ã" -> "ã"
      [] OTHER -> c

\* String.prototype.toUpperCase on one character.
UpperChar(c) ==
    CASE IsLower(c) -> UpperLetters[CHOOSE i \in 1..Len(LowerLetters) : LowerLetters[i] = c]
      [] c = "é" -> "É"
      [] c = "ã" -> "Ã"
      [] OTHER -> c

\* \w of a JavaScript regular expression without the u flag: [A-Za-z0-9_].
IsWordChar(c) == IsUpper(c) \/ IsLower(c) \/ IsDigit(c) \/ c = "_"

(***************************************************************************)
(* String helpers                                                          *)
(***************************************************************************)
\* String.prototype.normalize("NFD")
RECURSIVE NFD(_)
NFD(s) == IF s = <<>> THEN <<>> ELSE NFDChar(Head(s)) \o NFD(Tail(s))

toLowerCase(s) == [i \in 1..Len(s) |-> LowerChar(s[i])]

toUpperCase(s) == [i \in 1..Len(s) |-> UpperChar(s[i])]

\* String.prototype.trim
trim(s) ==
    LET keep == {i \in 1..Len(s) : ~IsSpace(s[i])}
    IN IF keep = {} THEN <<>>
       ELSE LET first == CHOOSE i \in keep : \A j \in keep : i <= j
                last == CHOOSE i \in keep : \A j \in keep : j <= i
            IN SubSeq(s, first, last)

\* replace(/\s+/g, " ")
RECURSIVE CollapseWhitespace(_)
CollapseWhitespace(s) ==
    IF s = <<>> THEN <<>>
    ELSE IF IsSpace(Head(s))
         THEN LET rest == Tail(s)
                  run == CHOOSE n \in 0..Len(rest) :
                            /\ \A i \in 1..n : IsSpace(rest[i])
                            /\ n < Len(rest) => ~IsSpace(rest[n + 1])
              IN <<" ">> \o CollapseWhitespace(SubSeq(rest, run + 1, Len(rest)))
         ELSE <<Head(s)>> \o CollapseWhitespace(Tail(s))

\* replace(/[\u0300-\u036f]/g, "")
StripCombining(s) == SelectSeq(s, LAMBDA c : c \notin CombiningMarks)

\* A key that keeps the combining marks: without the replace of line 436.
normalizeLocationPartKeepingMarks(value) ==
    trim(CollapseWhitespace(toLowerCase(NFD(value))))

normalizeLocationPart(value) ==
    trim(CollapseWhitespace(toLowerCase(StripCombining(NFD(value)))))

(***************************************************************************)
(* extractLocationCandidates                                               *)
(***************************************************************************)
\* String.prototype.split(/[,\-|/;()]+/): a run of delimiters is one separator,
\* and a separator at either end leaves an empty piece there.
RECURSIVE SplitOnDelimiters(_)
SplitOnDelimiters(s) ==
    LET hits == {i \in 1..Len(s) : IsDelimiter(s[i])}
    IN IF hits = {} THEN <<s>>
       ELSE LET i == CHOOSE h \in hits : \A g \in hits : h <= g
                j == CHOOSE e \in i..Len(s) :
                        /\ \A k \in i..e : IsDelimiter(s[k])
                        /\ e < Len(s) => ~IsDelimiter(s[e + 1])
            IN <<SubSeq(s, 1, i - 1)>> \o SplitOnDelimiters(SubSeq(s, j + 1, Len(s)))

\* A tokenizer without the .filter(Boolean) of line 508: the empty pieces stay.
extractLocationCandidatesUnfiltered(locationText_) ==
    LET raw == trim(OrEmpty(locationText_))
    IN IF raw = <<>> THEN <<>>
       ELSE LET split == SplitOnDelimiters(raw)
            IN [i \in 1..Len(split) |-> trim(split[i])]

extractLocationCandidates(locationText_) ==
    LET raw == trim(OrEmpty(locationText_))
    IN IF raw = <<>> THEN <<>>
       ELSE LET split == SplitOnDelimiters(raw)
                trimmed == [i \in 1..Len(split) |-> trim(split[i])]
            IN SelectSeq(trimmed, LAMBDA part : part # <<>>)

(***************************************************************************)
(* buildPortugalAdminIndex                                                 *)
(***************************************************************************)
\* A JavaScript Map used only through get and set: a function on its keys.
EmptyMap == <<>>

MapHas(map, key) == key \in DOMAIN map

\* A set that leaves the value of a key the Map already has.
MapSetIfAbsent(map, key, value) ==
    [k \in DOMAIN map \cup {key} |-> IF k \in DOMAIN map THEN map[k] ELSE value]

MapSet(map, key, value) ==
    [k \in DOMAIN map \cup {key} |-> IF k = key THEN value ELSE map[k]]

\* value?.trim()
OptionalTrim(v) == IF IsNull(v) THEN NULL ELSE trim(v)

\* !value of a string | undefined: undefined and "" are falsy.
Falsy(v) == IsNull(v) \/ v = <<>>

\* The fields of an AdminAreaOption that the index builder reads.
AdminAreaOption(label_, municipality_, district_) ==
    [label |-> label_, municipality |-> municipality_, district |-> district_]

RECURSIVE BuildDistrictByKey(_, _)
BuildDistrictByKey(districts, map) ==
    IF districts = <<>> THEN map
    ELSE LET label_ == OptionalTrim(Head(districts).label)
         IN BuildDistrictByKey(Tail(districts),
                IF Falsy(label_) THEN map
                ELSE MapSet(map, normalizeLocationPart(label_), label_))

RECURSIVE BuildMunicipalityByKey(_, _)
BuildMunicipalityByKey(municipalities, map) ==
    IF municipalities = <<>> THEN map
    ELSE LET municipalityName == OptionalTrim(Head(municipalities).label)
             districtName == OptionalTrim(Head(municipalities).district)
         IN BuildMunicipalityByKey(Tail(municipalities),
                IF Falsy(municipalityName) \/ Falsy(districtName) THEN map
                ELSE MapSet(map, normalizeLocationPart(municipalityName),
                            [municipality |-> municipalityName, district |-> districtName]))

\* A parish loop that tests the label and the municipality only.
RECURSIVE BuildParishByKeyUnchecked(_, _)
BuildParishByKeyUnchecked(parishes, map) ==
    IF parishes = <<>> THEN map
    ELSE LET parishName == OptionalTrim(Head(parishes).label)
             municipalityName == OptionalTrim(Head(parishes).municipality)
             districtName == OptionalTrim(Head(parishes).district)
         IN BuildParishByKeyUnchecked(Tail(parishes),
                IF Falsy(parishName) \/ Falsy(municipalityName) THEN map
                ELSE MapSet(map, normalizeLocationPart(parishName),
                            [parish |-> parishName, municipality |-> municipalityName,
                             district |-> districtName]))

RECURSIVE BuildParishByKey(_, _)
BuildParishByKey(parishes, map) ==
    IF parishes = <<>> THEN map
    ELSE LET parishName == OptionalTrim(Head(parishes).label)
             municipalityName == OptionalTrim(Head(parishes).municipality)
             districtName == OptionalTrim(Head(parishes).district)
         IN BuildParishByKey(Tail(parishes),
                IF Falsy(parishName) \/ Falsy(municipalityName) \/ Falsy(districtName) THEN map
                ELSE MapSet(map, normalizeLocationPart(parishName),
                            [parish |-> parishName, municipality |-> municipalityName,
                             district |-> districtName]))

buildPortugalAdminIndex(dataset_) ==
    [districtByKey |-> BuildDistrictByKey(dataset_.districts, EmptyMap),
     municipalityByKey |-> BuildMunicipalityByKey(dataset_.municipalities, EmptyMap),
     parishByKey |-> BuildParishByKey(dataset_.parishes, EmptyMap)]

(***************************************************************************)
(* resolveAdminHierarchy                                                   *)
(***************************************************************************)
\* index.<level>ByKey.get(normalizeLocationPart(part)) is defined
KeyHit(map, part) == MapHas(map, normalizeLocationPart(part))

\* The least member of a set of positions, or otherwise when it has none.
LeastOr(positions, otherwise) ==
    IF positions = {} THEN otherwise
    ELSE CHOOSE i \in positions : \A j \in positions : i <= j

\* The position of the candidate at which a `for (const part of candidates)'
\* loop over one map breaks, or Len(candidates) + 1 when it runs to the end.
FirstHit(candidates_, map) ==
    LeastOr({i \in 1..Len(candidates_) : KeyHit(map, candidates_[i])}, Len(candidates_) + 1)

Unresolved == [district |-> NULL, municipality |-> NULL, parish |-> NULL]

\* A parish hit that sets the parish alone: line 526 without lines 527-528.
TakeParishHitNameOnly(parishHit) ==
    [district |-> NULL, municipality |-> NULL, parish |-> parishHit.parish]

\* Lines 526-528.
TakeParishHit(parishHit) ==
    [district |-> parishHit.district,
     municipality |-> parishHit.municipality,
     parish |-> parishHit.parish]

ParishPassAt(candidates_, index_, current, i) ==
    IF i > Len(candidates_) THEN current
    ELSE TakeParishHit(index_.parishByKey[normalizeLocationPart(candidates_[i])])

\* Lines 522-531.
ParishPass(candidates_, index_, current) ==
    ParishPassAt(candidates_, index_, current, FirstHit(candidates_, index_.parishByKey))

\* A municipality pass that is entered whatever the parish pass found.
AlwaysMunicipalityPass(current) == TRUE

\* if (!municipality || !district)
NeedsMunicipalityPass(current) == Falsy(current.municipality) \/ Falsy(current.district)

\* Lines 538-539.
TakeMunicipalityHit(current, municipalityHit) ==
    [current EXCEPT !.municipality = municipalityHit.municipality,
                    !.district = municipalityHit.district]

MunicipalityPassAt(candidates_, index_, current, i) ==
    IF i > Len(candidates_) THEN current
    ELSE TakeMunicipalityHit(current,
             index_.municipalityByKey[normalizeLocationPart(candidates_[i])])

\* Lines 534-542.
MunicipalityPass(candidates_, index_, current) ==
    MunicipalityPassAt(candidates_, index_, current,
                       FirstHit(candidates_, index_.municipalityByKey))

\* A district pass that is entered whatever the earlier passes found.
AlwaysDistrictPass(current) == TRUE

\* if (!district)
NeedsDistrictPass(current) == Falsy(current.district)

\* A district pass that, when no candidate is a key, takes a district whose key a
\* candidate's key begins with.
DistrictPassAtPrefix(candidates_, index_, current, i) ==
    IF i > Len(candidates_)
    THEN (IF \E k \in DOMAIN index_.districtByKey, j \in 1..Len(candidates_) :
                /\ Len(k) <= Len(normalizeLocationPart(candidates_[j]))
                /\ SubSeq(normalizeLocationPart(candidates_[j]), 1, Len(k)) = k
          THEN [current EXCEPT !.district =
                   index_.districtByKey[CHOOSE k \in DOMAIN index_.districtByKey :
                       \E j \in 1..Len(candidates_) :
                           /\ Len(k) <= Len(normalizeLocationPart(candidates_[j]))
                           /\ SubSeq(normalizeLocationPart(candidates_[j]), 1, Len(k)) = k]]
          ELSE current)
    ELSE [current EXCEPT !.district =
                             index_.districtByKey[normalizeLocationPart(candidates_[i])]]

DistrictPassAt(candidates_, index_, current, i) ==
    IF i > Len(candidates_) THEN current
    ELSE [current EXCEPT !.district =
                             index_.districtByKey[normalizeLocationPart(candidates_[i])]]

\* Lines 546-553.
DistrictPass(candidates_, index_, current) ==
    DistrictPassAt(candidates_, index_, current, FirstHit(candidates_, index_.districtByKey))

\* Lines 533-543.
MunicipalityStep(candidates_, index_, current) ==
    IF NeedsMunicipalityPass(current)
    THEN MunicipalityPass(candidates_, index_, current)
    ELSE current

\* Lines 545-554.
DistrictStep(candidates_, index_, current) ==
    IF NeedsDistrictPass(current)
    THEN DistrictPass(candidates_, index_, current)
    ELSE current

\* Lines 518-556.
ResolveCandidates(candidates_, index_) ==
    DistrictStep(candidates_, index_,
        MunicipalityStep(candidates_, index_,
            ParishPass(candidates_, index_, Unresolved)))

resolveAdminHierarchy(locationText_, index_) ==
    ResolveCandidates(extractLocationCandidates(locationText_), index_)

(***************************************************************************)
(* inferTypologyLabel                                                      *)
(***************************************************************************)
\* The literal "Unknown".
Unknown == <<"U", "n", "k", "n", "o", "w", "n">>

\* A number | null column value: null, NaN, an infinity, or the finite number
\* halves / 2 (so that Math.round has something to round).
NullNumber == [kind |-> "null", halves |-> 0]
NaN == [kind |-> "NaN", halves |-> 0]
Infinity == [kind |-> "Infinity", halves |-> 0]
Finite(h) == [kind |-> "finite", halves |-> h]

\* Math.round: to the nearest integer, a half going up.
MathRound(h) == (h + 1) \div 2

\* String(n) of an integer n >= 0.
RECURSIVE DecimalString(_)
DecimalString(n) ==
    IF n < 10 THEN <<Digits[n + 1]>>
    ELSE DecimalString(n \div 10) \o <<Digits[(n % 10) + 1]>>

\* \b between the characters at positions p and p + 1 of s (p in 0..Len(s)).
WordAt(s, p) == p \in 1..Len(s) /\ IsWordChar(s[p])

WordBoundary(s, p) == WordAt(s, p) # WordAt(s, p + 1)

\* \s* from position p + 1 on: the position of the last character it takes.
SkipSpaces(s, p) ==
    CHOOSE q \in p..Len(s) :
        /\ \A k \in (p + 1)..q : IsSpace(s[k])
        /\ q < Len(s) => ~IsSpace(s[q + 1])

\* [0-9]{n} at positions p + 1 .. p + n
DigitsAt(s, p, n) == p + n <= Len(s) /\ \A k \in (p + 1)..(p + n) : IsDigit(s[k])

NoMatch == [matched |-> FALSE, base |-> NULL, extra |-> NULL]

\* The match ends after the base digits, which end at position p: \b there.
TailBare(s, p, base_) ==
    IF WordBoundary(s, p)
    THEN [matched |-> TRUE, base |-> base_, extra |-> NULL]
    ELSE NoMatch

\* ([0-9]{n})\b at positions from + 1 .. from + n
ExtraAt(s, from, n) == DigitsAt(s, from, n) /\ WordBoundary(s, from + n)

\* \s*([0-9]{1,2})\b after the "+", whose blanks end at position from: two
\* digits, then one, then the match without the group.
TailExtra(s, p, base_, from) ==
    IF ExtraAt(s, from, 2)
    THEN [matched |-> TRUE, base |-> base_, extra |-> SubSeq(s, from + 1, from + 2)]
    ELSE IF ExtraAt(s, from, 1)
    THEN [matched |-> TRUE, base |-> base_, extra |-> SubSeq(s, from + 1, from + 1)]
    ELSE TailBare(s, p, base_)

\* \+ at position plus, then the rest of the group.
TailFrom(s, p, base_, plus) ==
    IF plus <= Len(s) /\ s[plus] = "+"
    THEN TailExtra(s, p, base_, SkipSpaces(s, plus))
    ELSE TailBare(s, p, base_)

\* (?:\s*\+\s*([0-9]{1,2}))?\b after the base digits, which end at position p.
TypologyTail(s, p, base_) == TailFrom(s, p, base_, SkipSpaces(s, p) + 1)

\* ([0-9]{n}) at positions d + 1 .. d + n, then the tail.
TryBase(s, d, n) ==
    IF DigitsAt(s, d, n)
    THEN TypologyTail(s, d + n, SubSeq(s, d + 1, d + n))
    ELSE NoMatch

FirstMatched(first, second) == IF first.matched THEN first ELSE second

\* /\b[tT]\s*([0-9]{1,2})(?:\s*\+\s*([0-9]{1,2}))?\b/ anchored at position i:
\* greedy, the base with two digits before the base with one.
TypologyMatchAt(s, i) ==
    IF WordBoundary(s, i - 1) /\ s[i] \in {"t", "T"}
    THEN FirstMatched(TryBase(s, SkipSpaces(s, i), 2), TryBase(s, SkipSpaces(s, i), 1))
    ELSE NoMatch

MatchAtLeast(s, starts) ==
    IF starts = {} THEN NoMatch
    ELSE TypologyMatchAt(s, CHOOSE i \in starts : \A j \in starts : i <= j)

\* rawTitle.match(...): the leftmost match.
TypologyMatch(s) == MatchAtLeast(s, {i \in 1..Len(s) : TypologyMatchAt(s, i).matched})

\* A label without the `extra ?' test of line 449: the + is always written.
LabelForAlwaysExtra(titleMatch, bedrooms_) ==
    IF titleMatch.matched
    THEN <<"T">> \o titleMatch.base \o <<"+">> \o OrEmpty(titleMatch.extra)
    ELSE IF bedrooms_.kind = "finite" /\ bedrooms_.halves >= 0
         THEN <<"T">> \o DecimalString(MathRound(bedrooms_.halves))
         ELSE Unknown

\* A label that looks at the bedroom count before the title.
LabelForBedroomsFirst(titleMatch, bedrooms_) ==
    IF bedrooms_.kind = "finite" /\ bedrooms_.halves >= 0
    THEN <<"T">> \o DecimalString(MathRound(bedrooms_.halves))
    ELSE IF titleMatch.matched
         THEN IF Falsy(titleMatch.extra)
              THEN <<"T">> \o titleMatch.base
              ELSE <<"T">> \o titleMatch.base \o <<"+">> \o titleMatch.extra
         ELSE Unknown

\* Lines 446-454, given the result of the match.
LabelFor(titleMatch, bedrooms_) ==
    IF titleMatch.matched
    THEN IF Falsy(titleMatch.extra)
         THEN <<"T">> \o titleMatch.base
         ELSE <<"T">> \o titleMatch.base \o <<"+">> \o titleMatch.extra
    ELSE IF bedrooms_.kind = "finite" /\ bedrooms_.halves >= 0
         THEN <<"T">> \o DecimalString(MathRound(bedrooms_.halves))
         ELSE Unknown

inferTypologyLabel(bedrooms_, title_) == LabelFor(TypologyMatch(OrEmpty(title_)), bedrooms_)

(***************************************************************************)
(* Texts of the specification's examples                                   *)
(***************************************************************************)
Alvalade ==
    <<"A", "l", "v", "a", "l", "a", "d", "e">>

Lisboa ==
    <<"L", "i", "s", "b", "o", "a">>

Matosinhos ==
    <<"M", "a", "t", "o", "s", "i", "n", "h", "o", "s">>

Porto ==
    <<"P", "o", "r", "t", "o">>

Evora ==
    <<"É", "v", "o", "r", "a">>

RuaDasFlores12 ==
    <<"R", "u", "a", " ", "d", "a", "s", " ", "F", "l", "o", "r", "e", "s", " ", "1", "2">>

AlvaladeLisboa ==
    <<"A", "l", "v", "a", "l", "a", "d", "e", ",", " ", "L", "i", "s", "b", "o", "a">>

MatosinhosPorto ==
    <<"M", "a", "t", "o", "s", "i", "n", "h", "o", "s", ",", " ", "P", "o", "r", "t", "o">>

T3Plus1ApartmentInCenter ==
    <<"T", "3", "+", "1", " ", "a", "p", "a", "r", "t", "m", "e", "n", "t", " ", "i", "n", " ", "c", "e", "n", "t", "e", "r">>

NiceFlat ==
    <<"N", "i", "c", "e", " ", "f", "l", "a", "t">>

(***************************************************************************)
(* Inputs of the resolver: admin datasets and location texts               *)
(***************************************************************************)
Flores ==
    <<"F", "l", "o", "r", "e", "s">>

\* A token in capitals, with its accent and padded with whitespace.
EvoraShouting ==
    <<" ", " ", "É", "V", "O", "R", "A", " ">>

\* A token that contains an indexed name, and one contained in an indexed name.
PortoAlto ==
    <<"P", "o", "r", "t", "o", " ", "A", "l", "t", "o">>

Port ==
    <<"P", "o", "r", "t">>

Blank ==
    <<" ", " ">>

DistrictOption(label_) == AdminAreaOption(label_, NULL, label_)

NoDataset == [districts |-> <<>>, municipalities |-> <<>>, parishes |-> <<>>]

\* The index of the specification's scenario for "Matosinhos, Porto".
ScenarioDataset ==
    [districts |-> <<DistrictOption(Porto)>>,
     municipalities |-> <<AdminAreaOption(Matosinhos, Matosinhos, Porto)>>,
     parishes |-> <<>>]

MainDataset ==
    [districts |-> <<DistrictOption(Evora), DistrictOption(Lisboa), DistrictOption(Porto)>>,
     municipalities |-> <<AdminAreaOption(Evora, Evora, Evora),
                          AdminAreaOption(Lisboa, Lisboa, Lisboa),
                          AdminAreaOption(Matosinhos, Matosinhos, Porto)>>,
     parishes |-> <<AdminAreaOption(Alvalade, Lisboa, Lisboa)>>]

\* Two parishes of one name in different municipalities, and a parish that has
\* the name of a municipality.
CollidingDataset ==
    [districts |-> <<DistrictOption(Lisboa), DistrictOption(Porto)>>,
     municipalities |-> <<AdminAreaOption(Lisboa, Lisboa, Lisboa),
                          AdminAreaOption(Matosinhos, Matosinhos, Porto),
                          AdminAreaOption(Porto, Porto, Porto)>>,
     parishes |-> <<AdminAreaOption(Alvalade, Lisboa, Lisboa),
                    AdminAreaOption(Alvalade, Matosinhos, Porto),
                    AdminAreaOption(Lisboa, Evora, Evora)>>]

\* Records with blank or missing labels and parents.
BlankDataset ==
    [districts |-> <<DistrictOption(Blank), DistrictOption(NULL), DistrictOption(Porto)>>,
     municipalities |-> <<AdminAreaOption(Matosinhos, Matosinhos, <<>>),
                          AdminAreaOption(Lisboa, Lisboa, NULL),
                          AdminAreaOption(Blank, Blank, Porto)>>,
     parishes |-> <<AdminAreaOption(Alvalade, Blank, Lisboa),
                    AdminAreaOption(Alvalade, Lisboa, NULL),
                    AdminAreaOption(<<>>, Lisboa, Lisboa)>>]

\* Records named like a street, and like one word of a street.
StreetDataset ==
    [districts |-> <<DistrictOption(Lisboa)>>,
     municipalities |-> <<AdminAreaOption(Lisboa, Lisboa, Lisboa)>>,
     parishes |-> <<AdminAreaOption(RuaDasFlores12, Lisboa, Lisboa)>>]

FloresDataset ==
    [districts |-> <<DistrictOption(Porto)>>,
     municipalities |-> <<AdminAreaOption(Matosinhos, Matosinhos, Porto)>>,
     parishes |-> <<AdminAreaOption(Flores, Matosinhos, Porto)>>]

\* Records whose labels differ in case, accent and padding and give one key.
AccentDataset ==
    [districts |-> <<DistrictOption(Evora), DistrictOption(EvoraShouting)>>,
     municipalities |-> <<AdminAreaOption(Evora, Evora, Evora),
                          AdminAreaOption(EvoraShouting, EvoraShouting, Lisboa)>>,
     parishes |-> <<>>]

Datasets ==
    {NoDataset, ScenarioDataset, MainDataset, CollidingDataset, BlankDataset,
     StreetDataset, FloresDataset, AccentDataset}

\* The most tokens a generated location text is joined from.
MaxTokens == 2

Tokens ==
    {Alvalade, Lisboa, Matosinhos, Porto, RuaDasFlores12, EvoraShouting, PortoAlto,
     Port, <<>>}

\* What joins the tokens: two delimiters, and a space, which is no delimiter.
Separators == { <<",", " ">>, <<"-">>, <<" ">> }

RECURSIVE Join(_, _)
Join(tokens, separator) ==
    IF tokens = <<>> THEN <<>>
    ELSE IF Len(tokens) = 1 THEN tokens[1]
    ELSE tokens[1] \o separator \o Join(Tail(tokens), separator)

LocationTexts ==
    {NULL} \cup
    {Join(tokens, separator) :
        tokens \in UNION {[1..n -> Tokens] : n \in 0..MaxTokens},
        separator \in Separators}

(***************************************************************************)
(* State                                                                   *)
(***************************************************************************)
\* A call of resolveAdminHierarchy.
VARIABLES
    locationText,   \* the argument locationText
    index,          \* the argument index
    candidates,     \* const candidates
    district,       \* let district
    municipality,   \* let municipality
    parish,         \* let parish
    resolvePc,      \* where the call stands
    passesRun       \* the loops entered so far, in order

resolveVars ==
    <<locationText, index, candidates, district, municipality, parish, resolvePc, passesRun>>

\* A call of inferTypologyLabel.
VARIABLES
    title,        \* the argument title
    bedrooms,     \* the argument bedrooms
    typology,     \* the label returned
    typologyPc    \* where the call stands

typologyVars == <<title, bedrooms, typology, typologyPc>>

\* A call of getImportDashboardMetrics, the listing store and the index cache.
VARIABLES
    listings_normalized,        \* the table of the listing store
    servedDataset,              \* what GET /api/pt-admin answers with
    cachedPortugalAdminIndex,   \* the module's cache: <<>> for null, <<index>>
    pageSize,                   \* const pageSize
    adminIndex,                 \* const adminIndex: <<>> before it is set
    offset,                     \* let offset
    regionMaps,                 \* const regionMaps
    typologyMap,                \* const typologyMap
    totalBuy,                   \* let totalBuy
    totalRent,                  \* let totalRent
    metricsPc,                  \* where the call stands
    inFlight,                   \* the range requests awaiting their response
    requested,                  \* every range requested by this call, in order
    processed,                  \* every row received by this call, in order
    metrics                     \* the value returned: <<>> before the return

metricsVars ==
    <<listings_normalized, servedDataset, cachedPortugalAdminIndex, pageSize, adminIndex,
      offset, regionMaps, typologyMap, totalBuy, totalRent, metricsPc, inFlight,
      requested, processed, metrics>>

\* A call of getDashboardListingsByRegion or getDashboardListingsByTypology.
VARIABLES
    drillTable,      \* the table of the listing store, with last_seen_at
    drillIndex,      \* const adminIndex
    drillBy,         \* "region" or "typology": which of the two functions
    drillLevel,      \* the argument level
    drillLabel,      \* the argument regionLabel, or typology
    drillPageSize,   \* const pageSize
    drillOffset,     \* let offset
    drillPage,       \* the response awaited: <<>> for none, <<rows>>
    drillOut,        \* const out, as the ids of its rows
    drillPc          \* where the call stands

drillVars ==
    <<drillTable, drillIndex, drillBy, drillLevel, drillLabel, drillPageSize, drillOffset,
      drillPage, drillOut, drillPc>>

\* The calls of upsertAreaOption that one loop of the route makes on one Map.
VARIABLES
    arrivals,   \* the items, in the order the loop passes them
    areaMap,    \* the Map
    upserted    \* how many of the items the loop has passed

mergeVars == <<arrivals, areaMap, upserted>>

\* The route GET /api/pt-admin with its module cache, the external service it
\* pages through, the clock, and a client's calls of getPortugalAdminIndex.
VARIABLES
    now,             \* what Date.now() returns
    upstream,        \* how many rows the external service holds per dataset,
                     \* and whether its pages report total_count
    cached,          \* let cached of the route: <<>> for null, <<[at, data]>>
    cachedBefore,    \* cached as the GET in hand found it
    getNow,          \* const now of the GET in hand
    fetch,           \* per dataset, the call of fetchAllPages of the GET in hand
    routePc,         \* where the GET in hand stands
    response,        \* the response of the GET in hand: <<>> before it is sent
    indexPc,         \* where the client's call of getPortugalAdminIndex stands;
                     \* "served" when the GET in hand is the one it sent
    indexCalledAt,   \* the time of that call
    indexBuiltAt,    \* the time cachedPortugalAdminIndex was assigned
    indexReturned    \* the index the call returned: <<>> before the return

routeVars ==
    <<now, upstream, cached, cachedBefore, getNow, fetch, routePc, response, indexPc,
      indexCalledAt, indexBuiltAt, indexReturned>>

\* Calls of normalizeLocationPart on two texts, and on the key of the first.
VARIABLES
    normalizeArgs,   \* the two texts: <<>> when no call is made
    normalizeKeys    \* what the calls made so far returned, in order

normalizeVars == <<normalizeArgs, normalizeKeys>>

\* A GET of /api/pt-admin/geometry or of /api/pt-admin/geometry-list.
VARIABLES
    geoRequest,    \* the route asked and the search parameters of the request
    geoService,    \* the rows the external service finds for a query
    geoSent,       \* the requests sent to the external service, in order
    geoOffset,     \* let offset of fetchGeometryList
    geoOut,        \* const out of fetchGeometryList
    geoPc,         \* where the GET stands
    geoResponse    \* the response of the GET: <<>> before it is sent

geometryVars == <<geoRequest, geoService, geoSent, geoOffset, geoOut, geoPc, geoResponse>>

\* The component AdminAreaMapSelector and the list its parent keeps for it.
VARIABLES
    selectorValue,    \* the prop value: the list of selections
    selectorPicked,   \* the state district, municipality and parish of the pickers
    selectorCall      \* the last operation and what it was given

selectorVars == <<selectorValue, selectorPicked, selectorCall>>

\* The writers of the listing store, at work while a call pages through it.
VARIABLES
    changes           \* the ids of the rows whose is_active was written, in order

churnVars == <<changes>>

\* A second GET of /api/pt-admin, under way while the GET in hand awaits.
VARIABLES
    otherGet          \* its const now, its three calls of fetchAllPages, where it
                      \* stands and its response

overlapVars == <<otherGet>>

\* The variables of a call of getImportDashboardMetrics, without the index cache
\* that it shares with getPortugalAdminIndex.
metricsCall ==
    <<listings_normalized, servedDataset, pageSize, adminIndex, offset, regionMaps,
      typologyMap, totalBuy, totalRent, metricsPc, inFlight, requested, processed, metrics>>

\* What the steps of one call leave alone: the variables of the other calls.
outsideResolve == <<typologyVars, metricsVars, drillVars, mergeVars, routeVars, normalizeVars,
      geometryVars, selectorVars, churnVars, overlapVars>>

outsideTypology == <<resolveVars, metricsVars, drillVars, mergeVars, routeVars, normalizeVars,
      geometryVars, selectorVars, churnVars, overlapVars>>

outsideMetrics == <<resolveVars, typologyVars, drillVars, mergeVars, routeVars, normalizeVars,
      geometryVars, selectorVars, churnVars, overlapVars>>

outsideDrill == <<resolveVars, typologyVars, metricsVars, mergeVars, routeVars, normalizeVars,
      geometryVars, selectorVars, churnVars, overlapVars>>

outsideMerge == <<resolveVars, typologyVars, metricsVars, drillVars, routeVars, normalizeVars,
      geometryVars, selectorVars, churnVars, overlapVars>>

outsideNormalize ==
    <<resolveVars, typologyVars, metricsVars, drillVars, mergeVars, routeVars, geometryVars,
      selectorVars, churnVars, overlapVars>>

outsideGeometry ==
    <<resolveVars, typologyVars, metricsVars, drillVars, mergeVars, routeVars, normalizeVars,
      selectorVars, churnVars, overlapVars>>

outsideSelector ==
    <<resolveVars, typologyVars, metricsVars, drillVars, mergeVars, routeVars, normalizeVars,
      geometryVars, churnVars, overlapVars>>

outsideChurn ==
    <<resolveVars, typologyVars, drillVars, mergeVars, routeVars, normalizeVars, geometryVars,
      selectorVars, overlapVars>>

outsideOverlap ==
    <<resolveVars, typologyVars, metricsVars, drillVars, mergeVars, normalizeVars, geometryVars,
      selectorVars, churnVars>>

outsideRoute == <<resolveVars, typologyVars, metricsCall, drillVars, mergeVars, normalizeVars,
      geometryVars, selectorVars, churnVars, overlapVars>>

(***************************************************************************)
(* resolveAdminHierarchy, pass by pass                                     *)
(***************************************************************************)
Resolved == [district |-> district, municipality |-> municipality, parish |-> parish]

ResolveInit ==
    /\ locationText \in LocationTexts
    /\ \E dataset_ \in Datasets : index = buildPortugalAdminIndex(dataset_)
    /\ candidates = <<>>
    /\ district = NULL
    /\ municipality = NULL
    /\ parish = NULL
    /\ resolvePc = "start"
    /\ passesRun = <<>>

ResolveIdle ==
    /\ locationText = NULL
    /\ index = buildPortugalAdminIndex(NoDataset)
    /\ candidates = <<>>
    /\ district = NULL
    /\ municipality = NULL
    /\ parish = NULL
    /\ resolvePc = "idle"
    /\ passesRun = <<>>

\* Lines 517-520.
ResolveExtract ==
    /\ resolvePc = "start"
    /\ UNCHANGED outsideResolve
    /\ candidates' = extractLocationCandidates(locationText)
    /\ resolvePc' = "parish"
    /\ UNCHANGED <<locationText, index, district, municipality, parish, passesRun>>

SetResolved(r) ==
    /\ district' = r.district
    /\ municipality' = r.municipality
    /\ parish' = r.parish

\* Lines 522-531.
ResolveParishPass ==
    /\ resolvePc = "parish"
    /\ UNCHANGED outsideResolve
    /\ SetResolved(ParishPass(candidates, index, Resolved))
    /\ passesRun' = Append(passesRun, "parish")
    /\ resolvePc' = "municipality"
    /\ UNCHANGED <<locationText, index, candidates>>

\* Lines 533-543.
ResolveMunicipalityPass ==
    /\ resolvePc = "municipality"
    /\ UNCHANGED outsideResolve
    /\ NeedsMunicipalityPass(Resolved)
    /\ SetResolved(MunicipalityPass(candidates, index, Resolved))
    /\ passesRun' = Append(passesRun, "municipality")
    /\ resolvePc' = "district"
    /\ UNCHANGED <<locationText, index, candidates>>

ResolveSkipMunicipalityPass ==
    /\ resolvePc = "municipality"
    /\ UNCHANGED outsideResolve
    /\ ~NeedsMunicipalityPass(Resolved)
    /\ resolvePc' = "district"
    /\ UNCHANGED <<locationText, index, candidates, district, municipality, parish, passesRun>>

\* Lines 545-554.
ResolveDistrictPass ==
    /\ resolvePc = "district"
    /\ UNCHANGED outsideResolve
    /\ NeedsDistrictPass(Resolved)
    /\ SetResolved(DistrictPass(candidates, index, Resolved))
    /\ passesRun' = Append(passesRun, "district")
    /\ resolvePc' = "done"
    /\ UNCHANGED <<locationText, index, candidates>>

\* Line 556: at "done" the call has returned Resolved.
ResolveSkipDistrictPass ==
    /\ resolvePc = "district"
    /\ UNCHANGED outsideResolve
    /\ ~NeedsDistrictPass(Resolved)
    /\ resolvePc' = "done"
    /\ UNCHANGED <<locationText, index, candidates, district, municipality, parish, passesRun>>

(***************************************************************************)
(* inferTypologyLabel, branch by branch                                    *)
(***************************************************************************)
\* The comment's example of a token with blanks: t 4 + 1.
SpacedToken ==
    <<"t", " ", "4", " ", "+", " ", "1">>

\* The most pieces a generated title is made of.
MaxTitleParts == 4

TitlePieces == {"T", "t", "3", "+", " ", "a"}

Titles ==
    {NULL, T3Plus1ApartmentInCenter, NiceFlat, SpacedToken} \cup
    UNION {[1..n -> TitlePieces] : n \in 0..MaxTitleParts}

\* null, NaN, Infinity, -1, 0, 2, 2.5 and 12
BedroomCounts ==
    {NullNumber, NaN, Infinity, Finite(-2), Finite(0), Finite(4), Finite(5), Finite(24)}

TypologyInit ==
    /\ title \in Titles
    /\ bedrooms \in BedroomCounts
    /\ typology = NULL
    /\ typologyPc = "start"

TypologyIdle ==
    /\ title = NULL
    /\ bedrooms = NullNumber
    /\ typology = NULL
    /\ typologyPc = "idle"

\* Lines 446-450: the title holds a typology token.
InferFromTitle ==
    /\ typologyPc = "start"
    /\ UNCHANGED outsideTypology
    /\ TypologyMatch(OrEmpty(title)).matched
    /\ typology' = inferTypologyLabel(bedrooms, title)
    /\ typologyPc' = "done"
    /\ UNCHANGED <<title, bedrooms>>

\* Lines 451-453.
InferFromBedrooms ==
    /\ typologyPc = "start"
    /\ UNCHANGED outsideTypology
    /\ ~TypologyMatch(OrEmpty(title)).matched
    /\ bedrooms.kind = "finite" /\ bedrooms.halves >= 0
    /\ typology' = inferTypologyLabel(bedrooms, title)
    /\ typologyPc' = "done"
    /\ UNCHANGED <<title, bedrooms>>

\* Line 454.
InferUnknown ==
    /\ typologyPc = "start"
    /\ UNCHANGED outsideTypology
    /\ ~TypologyMatch(OrEmpty(title)).matched
    /\ ~(bedrooms.kind = "finite" /\ bedrooms.halves >= 0)
    /\ typology' = inferTypologyLabel(bedrooms, title)
    /\ typologyPc' = "done"
    /\ UNCHANGED <<title, bedrooms>>

(***************************************************************************)
(* String.prototype.localeCompare(other, "pt")                             *)
(***************************************************************************)
\* The letter a character is read as once its case and accent are set aside.
BaseChar(c) == LowerChar(Head(NFDChar(c)))

\* First level of the collation: blanks, then punctuation, then symbols, then
\* digits, then the letters in alphabetical order whatever their case and accent.
PrimaryWeight(c) ==
    LET b == BaseChar(c)
    IN CASE IsSpace(b) -> 1
         [] IsDelimiter(b) -> 2
         [] IsDigit(b) -> 10 + (CHOOSE i \in 1..Len(Digits) : Digits[i] = b)
         [] IsLower(b) -> 30 + (CHOOSE i \in 1..Len(LowerLetters) : LowerLetters[i] = b)
         [] OTHER -> 3

\* Second level: no accent, then acute, then tilde.
SecondaryWeight(c) ==
    LET d == NFDChar(c)
    IN CASE Len(d) = 1 -> 0
         [] d[2] = CombiningAcute -> 1
         [] OTHER -> 2

\* Third level: small before capital.
TertiaryWeight(c) == IF c # LowerChar(c) THEN 1 ELSE 0

RECURSIVE CompareWeights(_, _)
CompareWeights(x, y) ==
    CASE x = <<>> /\ y = <<>> -> 0
      [] x = <<>> /\ y # <<>> -> -1
      [] x # <<>> /\ y = <<>> -> 1
      [] OTHER -> IF Head(x) # Head(y)
                  THEN (IF Head(x) < Head(y) THEN -1 ELSE 1)
                  ELSE CompareWeights(Tail(x), Tail(y))

localeCompare(a, b) ==
    LET primary == CompareWeights([i \in 1..Len(a) |-> PrimaryWeight(a[i])],
                                  [i \in 1..Len(b) |-> PrimaryWeight(b[i])])
        secondary == CompareWeights([i \in 1..Len(a) |-> SecondaryWeight(a[i])],
                                    [i \in 1..Len(b) |-> SecondaryWeight(b[i])])
        tertiary == CompareWeights([i \in 1..Len(a) |-> TertiaryWeight(a[i])],
                                   [i \in 1..Len(b) |-> TertiaryWeight(b[i])])
    IN IF primary # 0 THEN primary
       ELSE IF secondary # 0 THEN secondary
       ELSE tertiary

(***************************************************************************)
(* getImportDashboardMetrics: the breakdown maps                           *)
(***************************************************************************)
\* A Map whose values are read in insertion order is the sequence of its values,
\* each carrying its key (region, typology).

\* Lines 358-367.
BumpRegion(map, region_, listingType) ==
    LET current == IF \E i \in 1..Len(map) : map[i].region = region_
                   THEN map[CHOOSE i \in 1..Len(map) : map[i].region = region_]
                   ELSE [region |-> region_, buy_count |-> 0, rent_count |-> 0, total_count |-> 0]
        updated == [current EXCEPT
                       !.buy_count = @ + (IF listingType = "buy" THEN 1 ELSE 0),
                       !.rent_count = @ + (IF listingType = "rent" THEN 1 ELSE 0),
                       !.total_count = @ + 1]
    IN IF \E i \in 1..Len(map) : map[i].region = region_
       THEN [i \in 1..Len(map) |-> IF map[i].region = region_ THEN updated ELSE map[i]]
       ELSE Append(map, updated)

\* Lines 374-383.
BumpTypology(map, typology_, listingType) ==
    LET current == IF \E i \in 1..Len(map) : map[i].typology = typology_
                   THEN map[CHOOSE i \in 1..Len(map) : map[i].typology = typology_]
                   ELSE [typology |-> typology_, buy_count |-> 0, rent_count |-> 0,
                         total_count |-> 0]
        updated == [current EXCEPT
                       !.buy_count = @ + (IF listingType = "buy" THEN 1 ELSE 0),
                       !.rent_count = @ + (IF listingType = "rent" THEN 1 ELSE 0),
                       !.total_count = @ + 1]
    IN IF \E i \in 1..Len(map) : map[i].typology = typology_
       THEN [i \in 1..Len(map) |-> IF map[i].typology = typology_ THEN updated ELSE map[i]]
       ELSE Append(map, updated)

Rent ==
    <<"r", "e", "n", "t">>

Buy ==
    <<"b", "u", "y">>

\* A classification that takes "buy" for buy and leaves any other value unclassified.
ListingTypeOfNamed(row) ==
    IF row.listing_type = Rent THEN "rent"
    ELSE IF row.listing_type = Buy THEN "buy" ELSE "other"

\* Line 344.
ListingTypeOf(row) == IF row.listing_type = Rent THEN "rent" ELSE "buy"

\* A group key without the `?? "Unknown"' of lines 349-351: null stays null.
OrNull(v) == v

\* value ?? "Unknown"
OrUnknown(v) == IF IsNull(v) THEN Unknown ELSE v

\* Lines 349-351.
KeysOf(resolvedRegion) ==
    [district |-> OrUnknown(resolvedRegion.district),
     municipality |-> OrUnknown(resolvedRegion.municipality),
     parish |-> OrUnknown(resolvedRegion.parish)]

\* Lines 348-351: the group key of the row at each level.
RegionKeys(row, adminIndex_) == KeysOf(resolveAdminHierarchy(row.location_text, adminIndex_))

\* A row counter that leaves a row without a typology out of the typology map.
CountRowTypologyIfKnown(acc, listingType, keys, typology_) ==
    [totalBuy |-> acc.totalBuy + (IF listingType = "buy" THEN 1 ELSE 0),
     totalRent |-> acc.totalRent + (IF listingType = "rent" THEN 1 ELSE 0),
     regionMaps |->
         [district |-> BumpRegion(acc.regionMaps.district, keys.district, listingType),
          municipality |->
              BumpRegion(acc.regionMaps.municipality, keys.municipality, listingType),
          parish |-> BumpRegion(acc.regionMaps.parish, keys.parish, listingType)],
     typologyMap |-> IF typology_ = Unknown THEN acc.typologyMap
                     ELSE BumpTypology(acc.typologyMap, typology_, listingType)]

\* Lines 345-346, 353-368 and 374-383: the counters a row adds to.
CountRow(acc, listingType, keys, typology_) ==
    [totalBuy |-> acc.totalBuy + (IF listingType = "buy" THEN 1 ELSE 0),
     totalRent |-> acc.totalRent + (IF listingType = "rent" THEN 1 ELSE 0),
     regionMaps |->
         [district |-> BumpRegion(acc.regionMaps.district, keys.district, listingType),
          municipality |->
              BumpRegion(acc.regionMaps.municipality, keys.municipality, listingType),
          parish |-> BumpRegion(acc.regionMaps.parish, keys.parish, listingType)],
     typologyMap |-> BumpTypology(acc.typologyMap, typology_, listingType)]

\* Lines 343-384: one turn of `for (const row of rowsPage)'.
ProcessRow(acc, row, adminIndex_) ==
    CountRow(acc, ListingTypeOf(row), RegionKeys(row, adminIndex_),
             inferTypologyLabel(row.bedrooms, row.title))

RECURSIVE ProcessPage(_, _, _)
ProcessPage(acc, rowsPage, adminIndex_) ==
    IF rowsPage = <<>> THEN acc
    ELSE ProcessPage(ProcessRow(acc, Head(rowsPage), adminIndex_), Tail(rowsPage), adminIndex_)

(***************************************************************************)
(* sortRegions and sortTypologies                                          *)
(***************************************************************************)
\* A region comparator with the rule of sortTypologies: Unknown goes last.
CompareRegionsUnknownLast(a, b) ==
    CASE a.region = Unknown -> 1
      [] a.region # Unknown /\ b.region = Unknown -> -1
      [] OTHER -> IF b.total_count - a.total_count # 0
                  THEN b.total_count - a.total_count
                  ELSE localeCompare(a.region, b.region)

\* Line 393: the comparator of sortRegions.
CompareRegions(a, b) ==
    IF b.total_count - a.total_count # 0
    THEN b.total_count - a.total_count
    ELSE localeCompare(a.region, b.region)

\* A typology comparator without lines 396-397: Unknown is a label like any other.
CompareTypologiesByCount(a, b) ==
    IF b.total_count - a.total_count # 0
    THEN b.total_count - a.total_count
    ELSE localeCompare(a.typology, b.typology)

\* Lines 395-399: the comparator of sortTypologies.
CompareTypologies(a, b) ==
    CASE a.typology = Unknown -> 1
      [] a.typology # Unknown /\ b.typology = Unknown -> -1
      [] OTHER -> IF b.total_count - a.total_count # 0
                  THEN b.total_count - a.total_count
                  ELSE localeCompare(a.typology, b.typology)

\* Array.prototype.sort is stable: an entry goes before the first one that the
\* comparator puts after it.
InsertRegion(sorted, entry) ==
    LET after == {i \in 1..Len(sorted) : CompareRegions(sorted[i], entry) > 0}
        at == IF after = {} THEN Len(sorted) + 1
              ELSE CHOOSE i \in after : \A j \in after : i <= j
    IN SubSeq(sorted, 1, at - 1) \o <<entry>> \o SubSeq(sorted, at, Len(sorted))

RECURSIVE SortRegionsInto(_, _)
SortRegionsInto(sorted, entries) ==
    IF entries = <<>> THEN sorted
    ELSE SortRegionsInto(InsertRegion(sorted, Head(entries)), Tail(entries))

sortRegions(entries) == SortRegionsInto(<<>>, entries)

InsertTypology(sorted, entry) ==
    LET after == {i \in 1..Len(sorted) : CompareTypologies(sorted[i], entry) > 0}
        at == IF after = {} THEN Len(sorted) + 1
              ELSE CHOOSE i \in after : \A j \in after : i <= j
    IN SubSeq(sorted, 1, at - 1) \o <<entry>> \o SubSeq(sorted, at, Len(sorted))

RECURSIVE SortTypologiesInto(_, _)
SortTypologiesInto(sorted, entries) ==
    IF entries = <<>> THEN sorted
    ELSE SortTypologiesInto(InsertTypology(sorted, Head(entries)), Tail(entries))

sortTypologies(entries) == SortTypologiesInto(<<>>, entries)

(***************************************************************************)
(* The listing store                                                       *)
(***************************************************************************)
DelimitersOnly ==
    <<" ", "(", " ", "-", " ", ")", " ">>

\* The columns of listings_normalized that the pass reads or filters on. The id
\* of a row is its place in the table, which is kept in ascending id order.
Listing(is_active_, listing_type_, bedrooms_, title_, location_text_) ==
    [is_active |-> is_active_, listing_type |-> listing_type_, bedrooms |-> bedrooms_,
     title |-> title_, location_text |-> location_text_]

ListingPool ==
    {Listing(TRUE, Buy, NullNumber, T3Plus1ApartmentInCenter, AlvaladeLisboa),
     Listing(TRUE, Rent, Finite(4), NiceFlat, MatosinhosPorto),
     Listing(TRUE, NULL, NullNumber, NULL, NULL),
     Listing(TRUE, Rent, Finite(5), NiceFlat, DelimitersOnly),
     Listing(TRUE, Buy, NullNumber, SpacedToken, Blank),
     Listing(TRUE, Rent, NaN, NiceFlat, <<>>),
     Listing(TRUE, Buy, Finite(4), NULL, EvoraShouting),
     Listing(FALSE, Buy, Finite(4), NiceFlat, Lisboa)}

\* The most rows the table holds, and the largest page size tried.
MaxListings == 3

MaxPageSize == 2

Stores ==
    UNION {{[i \in 1..n |-> [id |-> i] @@ rows[i]] : rows \in [1..n -> ListingPool]} :
              n \in 0..MaxListings}

\* .eq("is_active", true).order("id", { ascending: true })
ActiveRows(table) == SelectSeq(table, LAMBDA row : row.is_active)

Min(a, b) == IF a <= b THEN a ELSE b

\* .range(from, to) over the filtered, ordered rows: both ends inclusive, counted
\* from zero.
RangeOf(rows, from, to) == SubSeq(rows, from + 1, Min(to + 1, Len(rows)))

(***************************************************************************)
(* getImportDashboardMetrics, await by await                               *)
(***************************************************************************)
EmptyRegionMaps == [district |-> <<>>, municipality |-> <<>>, parish |-> <<>>]

\* Lines 316-325: the locals of a call.
MetricsLocals ==
    /\ adminIndex = <<>>
    /\ offset = 0
    /\ regionMaps = EmptyRegionMaps
    /\ typologyMap = <<>>
    /\ totalBuy = 0
    /\ totalRent = 0
    /\ inFlight = {}
    /\ requested = <<>>
    /\ processed = <<>>
    /\ metrics = <<>>

MetricsInit ==
    /\ listings_normalized \in Stores
    /\ servedDataset = MainDataset
    /\ cachedPortugalAdminIndex = <<>>
    /\ pageSize \in 1..MaxPageSize
    /\ metricsPc = "start"
    /\ MetricsLocals

MetricsIdle ==
    /\ listings_normalized = <<>>
    /\ servedDataset = NoDataset
    /\ cachedPortugalAdminIndex = <<>>
    /\ pageSize = 1
    /\ metricsPc = "idle"
    /\ MetricsLocals

\* Lines 494-496 from line 326: the cached index is there.
GetCachedIndex ==
    /\ metricsPc = "start"
    /\ UNCHANGED outsideMetrics
    /\ cachedPortugalAdminIndex # <<>>
    /\ adminIndex' = cachedPortugalAdminIndex
    /\ metricsPc' = "request"
    /\ UNCHANGED <<listings_normalized, servedDataset, cachedPortugalAdminIndex, pageSize,
                   offset, regionMaps, typologyMap, totalBuy, totalRent, inFlight,
                   requested, processed, metrics>>

\* Lines 497-499 from line 326: the dataset is fetched and the index built.
BuildIndex ==
    /\ metricsPc = "start"
    /\ UNCHANGED outsideMetrics
    /\ cachedPortugalAdminIndex = <<>>
    /\ cachedPortugalAdminIndex' = <<buildPortugalAdminIndex(servedDataset)>>
    /\ adminIndex' = cachedPortugalAdminIndex'
    /\ metricsPc' = "request"
    /\ UNCHANGED <<listings_normalized, servedDataset, pageSize, offset, regionMaps,
                   typologyMap, totalBuy, totalRent, inFlight, requested, processed, metrics>>

\* Lines 132-135 from line 497: the response is not ok and the call throws.
DatasetFetchFails ==
    /\ metricsPc = "start"
    /\ UNCHANGED outsideMetrics
    /\ cachedPortugalAdminIndex = <<>>
    /\ metricsPc' = "failed"
    /\ UNCHANGED <<listings_normalized, servedDataset, cachedPortugalAdminIndex, pageSize,
                   adminIndex, offset, regionMaps, typologyMap, totalBuy, totalRent,
                   inFlight, requested, processed, metrics>>

\* A range whose upper end is taken as exclusive: .range(offset, offset + pageSize)
PageRangeEndExclusive(offset_, pageSize_) == <<offset_, offset_ + pageSize_>>

\* Line 334: .range(offset, offset + pageSize - 1)
PageRange(offset_, pageSize_) == <<offset_, offset_ + pageSize_ - 1>>

\* A loop with the break of lines 339-341 alone: it stops on an empty page only.
LoopBreaksOnEmptyPage(rowsPage, pageSize_) == Len(rowsPage) = 0

\* Lines 339-341 and 386-388: the two breaks of the loop.
LoopBreaks(rowsPage, pageSize_) == Len(rowsPage) = 0 \/ Len(rowsPage) < pageSize_

\* Lines 329-334: the range request is sent.
RequestPage ==
    /\ metricsPc = "request"
    /\ UNCHANGED outsideMetrics
    /\ inFlight' = inFlight \cup {PageRange(offset, pageSize)}
    /\ requested' = Append(requested, PageRange(offset, pageSize))
    /\ metricsPc' = "await"
    /\ UNCHANGED <<listings_normalized, servedDataset, cachedPortugalAdminIndex, pageSize,
                   adminIndex, offset, regionMaps, typologyMap, totalBuy, totalRent,
                   processed, metrics>>

\* The rows the store answers a range request with.
ResponseTo(range) == RangeOf(ActiveRows(listings_normalized), range[1], range[2])

Accumulators ==
    [totalBuy |-> totalBuy, totalRent |-> totalRent, regionMaps |-> regionMaps,
     typologyMap |-> typologyMap]

SetAccumulators(acc) ==
    /\ totalBuy' = acc.totalBuy
    /\ totalRent' = acc.totalRent
    /\ regionMaps' = acc.regionMaps
    /\ typologyMap' = acc.typologyMap

\* Lines 401-414: the value returned (the per-source rows are not modelled).
MetricsOf(acc) ==
    [total_buy |-> acc.totalBuy,
     total_rent |-> acc.totalRent,
     regions |-> [district |-> sortRegions(acc.regionMaps.district),
                  municipality |-> sortRegions(acc.regionMaps.municipality),
                  parish |-> sortRegions(acc.regionMaps.parish)],
     typologies |-> sortTypologies(acc.typologyMap)]

\* An index that is looked up in the module's cache whenever a page is counted.
IndexOfCache == cachedPortugalAdminIndex[1]

\* Lines 326 and 348: the rows are resolved with the const adminIndex of the call.
IndexOfPass == adminIndex[1]

\* Lines 338-389: a full page arrives; its rows are counted and the loop goes on.
ReceiveFullPage ==
    /\ metricsPc = "await"
    /\ UNCHANGED outsideMetrics
    /\ \E range \in inFlight :
          \E rowsPage \in {ResponseTo(range)} :
             /\ ~LoopBreaks(rowsPage, pageSize)
             /\ inFlight' = inFlight \ {range}
             /\ SetAccumulators(ProcessPage(Accumulators, rowsPage, IndexOfPass))
             /\ processed' = processed \o rowsPage
             /\ offset' = offset + pageSize
    /\ metricsPc' = "request"
    /\ UNCHANGED <<listings_normalized, servedDataset, cachedPortugalAdminIndex, pageSize,
                   adminIndex, requested, metrics>>

\* Lines 338-414: an empty or short page arrives; its rows are counted, the loop
\* breaks, the buckets are sorted and the call returns.
ReceiveLastPage ==
    /\ metricsPc = "await"
    /\ UNCHANGED outsideMetrics
    /\ \E range \in inFlight :
          \E rowsPage \in {ResponseTo(range)} :
             /\ LoopBreaks(rowsPage, pageSize)
             /\ inFlight' = inFlight \ {range}
             /\ SetAccumulators(ProcessPage(Accumulators, rowsPage, IndexOfPass))
             /\ processed' = processed \o rowsPage
             /\ metrics' = <<MetricsOf(Accumulators')>>
    /\ metricsPc' = "done"
    /\ UNCHANGED <<listings_normalized, servedDataset, cachedPortugalAdminIndex, pageSize,
                   adminIndex, offset, requested>>

\* Lines 335-337: the store answers with an error and the call throws.
ReceiveError ==
    /\ metricsPc = "await"
    /\ UNCHANGED outsideMetrics
    /\ \E range \in inFlight : inFlight' = inFlight \ {range}
    /\ metricsPc' = "failed"
    /\ UNCHANGED <<listings_normalized, servedDataset, cachedPortugalAdminIndex, pageSize,
                   adminIndex, offset, regionMaps, typologyMap, totalBuy, totalRent,
                   requested, processed, metrics>>

\* The dashboard calls getImportDashboardMetrics again: a new call, new locals.
CallAgain ==
    /\ metricsPc \in {"done", "failed"}
    /\ UNCHANGED outsideMetrics
    /\ metricsPc' = "start"
    /\ adminIndex' = <<>>
    /\ offset' = 0
    /\ regionMaps' = EmptyRegionMaps
    /\ typologyMap' = <<>>
    /\ totalBuy' = 0
    /\ totalRent' = 0
    /\ inFlight' = {}
    /\ requested' = <<>>
    /\ processed' = <<>>
    /\ metrics' = <<>>
    /\ UNCHANGED <<listings_normalized, servedDataset, cachedPortugalAdminIndex, pageSize>>

(***************************************************************************)
(* getDashboardListingsByRegion and getDashboardListingsByTypology         *)
(***************************************************************************)
\* Lines 559-568.
locationPartByLevel(locationText_, level, index_) ==
    normalizeLocationPart(OrUnknown(resolveAdminHierarchy(locationText_, index_)[level]))

\* Line 640: normalizeLocationPart(regionLabel || "Unknown")
RegionTarget(regionLabel) ==
    normalizeLocationPart(IF Falsy(regionLabel) THEN Unknown ELSE regionLabel)

\* Line 610: typology.trim().toUpperCase()
TypologyTarget(typology_) == toUpperCase(trim(typology_))

\* Lines 625 and 654: the test that lets a row into out.
DrillMatches(row, by, level, label_, index_) ==
    IF by = "region"
    THEN locationPartByLevel(row.location_text, level, index_) = RegionTarget(label_)
    ELSE toUpperCase(inferTypologyLabel(row.bedrooms, row.title)) = TypologyTarget(label_)

\* normalizeDashboardRow, as far as the id: String(row.id ?? "")
IdsOf(rows) == [i \in 1..Len(rows) |-> rows[i].id]

\* Lines 620-628 and 652-657: the ids of the rows of a page that go into out.
DrillKeep(rows, by, level, label_, index_) ==
    IdsOf(SelectSeq(rows, LAMBDA row : DrillMatches(row, by, level, label_, index_)))

\* .order("last_seen_at", { ascending: false }): the rows from the newest to the
\* oldest; rows of one last_seen_at come in an order left to the store, which
\* may differ from one request to the next.
NewestFirst(rows) ==
    {[i \in 1..Len(rows) |-> rows[order[i]]] :
        order \in {o \in [1..Len(rows) -> 1..Len(rows)] :
                      /\ \A i, j \in 1..Len(rows) : i # j => o[i] # o[j]
                      /\ \A i \in 1..(Len(rows) - 1) :
                            rows[o[i]].last_seen_at >= rows[o[i + 1]].last_seen_at}}

LisboaUpper ==
    <<"L", "I", "S", "B", "O", "A">>

\* A dataset whose parish rows write the municipality in capitals.
CapitalsDataset ==
    [districts |-> <<DistrictOption(Lisboa)>>,
     municipalities |-> <<AdminAreaOption(Lisboa, Lisboa, Lisboa)>>,
     parishes |-> <<AdminAreaOption(Alvalade, LisboaUpper, Lisboa)>>]

DrillPool ==
    {[last_seen_at |-> 1] @@ Listing(TRUE, Buy, Finite(4), NULL, Alvalade),
     [last_seen_at |-> 2] @@ Listing(TRUE, Buy, Finite(4), NULL, Alvalade),
     [last_seen_at |-> 1] @@ Listing(TRUE, Rent, NullNumber, NULL, Lisboa),
     [last_seen_at |-> 2] @@ Listing(FALSE, Buy, NullNumber, NULL, Lisboa)}

\* The most rows the table of a drill-down holds, and the largest page size tried.
MaxDrillRows == 3

MaxDrillPageSize == 2

DrillTables ==
    UNION {{[i \in 1..n |-> [id |-> i] @@ rows[i]] : rows \in [1..n -> DrillPool]} :
              n \in 0..MaxDrillRows}

\* The buckets getImportDashboardMetrics reports over a table: <<by, level, label>>.
ReportedBuckets(returned) ==
    UNION {{<<"region", level, returned.regions[level][i].region>> :
               i \in 1..Len(returned.regions[level])} :
           level \in {"district", "municipality", "parish"}}
    \cup {<<"typology", "district", returned.typologies[i].typology>> :
             i \in 1..Len(returned.typologies)}

DrillInit ==
    /\ drillTable \in DrillTables
    /\ \E dataset_ \in {MainDataset, CapitalsDataset} :
          drillIndex = buildPortugalAdminIndex(dataset_)
    /\ \E returned \in {MetricsOf(ProcessPage(
              [totalBuy |-> 0, totalRent |-> 0, regionMaps |-> EmptyRegionMaps,
               typologyMap |-> <<>>],
              ActiveRows(drillTable), drillIndex))} :
          \E bucket \in ReportedBuckets(returned) :
              /\ drillBy = bucket[1]
              /\ drillLevel = bucket[2]
              /\ drillLabel = bucket[3]
    /\ drillPageSize \in 1..MaxDrillPageSize
    /\ drillOffset = 0
    /\ drillPage = <<>>
    /\ drillOut = <<>>
    /\ drillPc = "loop"

DrillIdle ==
    /\ drillTable = <<>>
    /\ drillIndex = buildPortugalAdminIndex(NoDataset)
    /\ drillBy = "region"
    /\ drillLevel = "district"
    /\ drillLabel = Unknown
    /\ drillPageSize = 1
    /\ drillOffset = 0
    /\ drillPage = <<>>
    /\ drillOut = <<>>
    /\ drillPc = "idle"

\* Lines 612-618 and 643-649: the request of a page, and the page the store answers.
DrillRequestPage ==
    /\ drillPc = "loop"
    /\ UNCHANGED outsideDrill
    /\ \E ordered \in NewestFirst(ActiveRows(drillTable)) :
          drillPage' = <<RangeOf(ordered, drillOffset, drillOffset + drillPageSize - 1)>>
    /\ drillPc' = "await"
    /\ UNCHANGED <<drillTable, drillIndex, drillBy, drillLevel, drillLabel, drillPageSize,
                   drillOffset, drillOut>>

\* Lines 620-631 and 651-660: a full page; the loop goes on.
DrillReceiveFullPage ==
    /\ drillPc = "await"
    /\ UNCHANGED outsideDrill
    /\ ~(Len(drillPage[1]) < drillPageSize)
    /\ drillOut' = drillOut \o DrillKeep(drillPage[1], drillBy, drillLevel, drillLabel, drillIndex)
    /\ drillOffset' = drillOffset + drillPageSize
    /\ drillPage' = <<>>
    /\ drillPc' = "loop"
    /\ UNCHANGED <<drillTable, drillIndex, drillBy, drillLevel, drillLabel, drillPageSize>>

\* Lines 620-633 and 651-662: a short page; out is returned.
DrillReceiveLastPage ==
    /\ drillPc = "await"
    /\ UNCHANGED outsideDrill
    /\ Len(drillPage[1]) < drillPageSize
    /\ drillOut' = drillOut \o DrillKeep(drillPage[1], drillBy, drillLevel, drillLabel, drillIndex)
    /\ drillPage' = <<>>
    /\ drillPc' = "done"
    /\ UNCHANGED <<drillTable, drillIndex, drillBy, drillLevel, drillLabel, drillPageSize,
                   drillOffset>>

\* Lines 619 and 650: if (error) throw
DrillReceiveError ==
    /\ drillPc = "await"
    /\ UNCHANGED outsideDrill
    /\ drillPage' = <<>>
    /\ drillPc' = "failed"
    /\ UNCHANGED <<drillTable, drillIndex, drillBy, drillLevel, drillLabel, drillPageSize,
                   drillOffset, drillOut>>

(***************************************************************************)
(* The route GET /api/pt-admin: upsertAreaOption                           *)
(***************************************************************************)
\* A number | null of the route: the fraction num / den in lowest terms with
\* den > 0, and den = 0 for null.  The arithmetic on fractions is exact, where
\* JavaScript rounds to a double.
NullCoordinate == [num |-> 0, den |-> 0]

Abs(n) == IF n < 0 THEN -n ELSE n

RECURSIVE GCD(_, _)
GCD(a, b) == IF b = 0 THEN a ELSE GCD(b, a % b)

Fraction(n, d) == [num |-> n \div GCD(Abs(n), d), den |-> d \div GCD(Abs(n), d)]

\* Lines 161-164 (and 165-168):
\*   existing.lat !== null && item.lat !== null
\*     ? (existing.lat * existing.sample_count + item.lat) / total
\*     : existing.lat ?? item.lat
RunningMean(existing, sample_count, item, total) ==
    IF existing.den # 0 /\ item.den # 0
    THEN Fraction(existing.num * sample_count * item.den + item.num * existing.den,
                  existing.den * item.den * total)
    ELSE IF existing.den # 0 THEN existing ELSE item

\* A Map in the order of insertion: a sequence of [key, value].
AreaMapHas(map, key) == \E i \in 1..Len(map) : map[i].key = key

AreaMapAt(map, key) == CHOOSE i \in 1..Len(map) : map[i].key = key

AreaMapValues(map) == [i \in 1..Len(map) |-> map[i].value]

\* Lines 160-174: the entry that replaces the existing one.
MergedOption(existing, item) ==
    [existing EXCEPT
        !.lat = RunningMean(existing.lat, existing.sample_count, item.lat,
                            existing.sample_count + 1),
        !.lng = RunningMean(existing.lng, existing.sample_count, item.lng,
                            existing.sample_count + 1),
        !.sample_count = existing.sample_count + 1]

\* Lines 154-175.
upsertAreaOption(map, key, item) ==
    IF ~AreaMapHas(map, key)
    THEN Append(map, [key |-> key, value |-> item])
    ELSE [map EXCEPT ![AreaMapAt(map, key)].value = MergedOption(@, item)]

DistrictPrefix == <<"d", "i", "s", "t", "r", "i", "c", "t", ":">>

\* Line 30: `district:${district.toLowerCase()}`
DistrictId(district_) == DistrictPrefix \o toLowerCase(district_)

\* row.geo_point_2d?.lat ?? null
PointLat(row) == IF row.geo_point_2d = <<>> THEN NullCoordinate ELSE row.geo_point_2d[1].lat

PointLon(row) == IF row.geo_point_2d = <<>> THEN NullCoordinate ELSE row.geo_point_2d[1].lon

\* (row.dis_name || "").trim()
NameOf(name) == trim(IF Falsy(name) THEN <<>> ELSE name)

\* Lines 28-40: the item made of a district row.
DistrictItem(row) ==
    LET district_ == NameOf(row.dis_name)
    IN [id |-> DistrictId(district_),
        label |-> district_,
        level |-> "district",
        country |-> "PT",
        district |-> district_,
        lat |-> PointLat(row),
        lng |-> PointLon(row),
        sample_count |-> 1]

\* A point of a row: geo_point_2d is <<>> when the row has none, and either
\* coordinate of a point may be missing.
Point(lat_, lon_) == <<[lat |-> lat_, lon |-> lon_]>>

DistrictRow(dis_name_, point) == [dis_name |-> dis_name_, geo_point_2d |-> point]

\* The most items one loop passes, and the coordinates their rows have.
MaxArrivals == 3

Coordinates == {NullCoordinate, Fraction(10, 1), Fraction(20, 1)}

DistrictRowPool ==
    {DistrictRow(name, Point(lat_, lon_)) :
        name \in {Lisboa, Porto}, lat_ \in Coordinates, lon_ \in {NullCoordinate, Fraction(-9, 1)}}
    \cup {DistrictRow(Lisboa, <<>>)}

MergeInit ==
    /\ \E n \in 1..MaxArrivals : \E rows \in [1..n -> DistrictRowPool] :
          arrivals = [i \in 1..n |-> DistrictItem(rows[i])]
    /\ areaMap = <<>>
    /\ upserted = 0

MergeIdle ==
    /\ arrivals = <<>>
    /\ areaMap = <<>>
    /\ upserted = 0

\* Lines 155-159: the key is new to the Map.
UpsertNew ==
    /\ upserted < Len(arrivals)
    /\ UNCHANGED outsideMerge
    /\ ~AreaMapHas(areaMap, arrivals[upserted + 1].id)
    /\ areaMap' = upsertAreaOption(areaMap, arrivals[upserted + 1].id, arrivals[upserted + 1])
    /\ upserted' = upserted + 1
    /\ UNCHANGED arrivals

\* Lines 160-174: the key is in the Map and the item is merged into its entry.
UpsertExisting ==
    /\ upserted < Len(arrivals)
    /\ UNCHANGED outsideMerge
    /\ AreaMapHas(areaMap, arrivals[upserted + 1].id)
    /\ areaMap' = upsertAreaOption(areaMap, arrivals[upserted + 1].id, arrivals[upserted + 1])
    /\ upserted' = upserted + 1
    /\ UNCHANGED arrivals

(***************************************************************************)
(* The route GET /api/pt-admin: the response                               *)
(***************************************************************************)
MunicipalityPrefix ==
    <<"m", "u", "n", "i", "c", "i", "p", "a", "l", "i", "t", "y", ":">>

ParishPrefix == <<"p", "a", "r", "i", "s", "h", ":">>

\* Line 48.
MunicipalityId(district_, municipality_) ==
    MunicipalityPrefix \o toLowerCase(district_) \o <<":">> \o toLowerCase(municipality_)

\* Line 67.
ParishId(district_, municipality_, parish_) ==
    ParishPrefix \o toLowerCase(district_) \o <<":">> \o toLowerCase(municipality_)
        \o <<":">> \o toLowerCase(parish_)

\* Lines 49-59: the item made of a municipality row.
MunicipalityItem(row) ==
    LET district_ == NameOf(row.dis_name)
        municipality_ == NameOf(row.con_name)
    IN [id |-> MunicipalityId(district_, municipality_),
        label |-> municipality_,
        level |-> "municipality",
        country |-> "PT",
        district |-> district_,
        municipality |-> municipality_,
        lat |-> PointLat(row),
        lng |-> PointLon(row),
        sample_count |-> 1]

\* Lines 68-79: the item made of a parish row.
ParishItem(row) ==
    LET district_ == NameOf(row.dis_name)
        municipality_ == NameOf(row.con_name)
        parish_ == NameOf(row.fre_name)
    IN [id |-> ParishId(district_, municipality_, parish_),
        label |-> parish_,
        level |-> "parish",
        country |-> "PT",
        district |-> district_,
        municipality |-> municipality_,
        parish |-> parish_,
        lat |-> PointLat(row),
        lng |-> PointLon(row),
        sample_count |-> 1]

\* Lines 28-40: one turn of the loop over districtRows.
UpsertDistrict(row, map) ==
    LET item == DistrictItem(row)
    IN IF item.district = <<>> THEN map
       ELSE upsertAreaOption(map, item.id, item)

\* Lines 44-59: one turn of the loop over municipalitiesRows.
UpsertMunicipality(row, map) ==
    LET item == MunicipalityItem(row)
    IN IF item.district = <<>> \/ item.municipality = <<>> THEN map
       ELSE upsertAreaOption(map, item.id, item)

\* Lines 63-79: one turn of the loop over parishesRows.
UpsertParish(row, map) ==
    LET item == ParishItem(row)
    IN IF item.district = <<>> \/ item.municipality = <<>> \/ item.parish = <<>> THEN map
       ELSE upsertAreaOption(map, item.id, item)

\* Lines 28-80: one turn of a loop.
UpsertRow(level, row, map) ==
    CASE level = "district" -> UpsertDistrict(row, map)
      [] level = "municipality" -> UpsertMunicipality(row, map)
      [] level = "parish" -> UpsertParish(row, map)

\* Lines 27-80: the turns of a loop for rows[from] to rows[to], in their order:
\* those for the first half of the rows, then, on the Map they leave (half),
\* those for the second half.
RECURSIVE UpsertRows(_, _, _, _, _)
UpsertRows(level, rows, from, to, map) ==
    IF from > to THEN map
    ELSE IF from = to THEN UpsertRow(level, rows[from], map)
    ELSE CHOOSE result \in
             {UpsertRows(level, rows, ((from + to) \div 2) + 1, to, half) :
                 half \in {UpsertRows(level, rows, from, (from + to) \div 2, map)}} : TRUE

\* Line 82 in a stable sort: an option goes before the first one whose label
\* the comparator puts after its own.
InsertByLabel(sorted, option) ==
    LET after == {i \in 1..Len(sorted) : localeCompare(sorted[i].label, option.label) > 0}
        at == IF after = {} THEN Len(sorted) + 1
              ELSE CHOOSE i \in after : \A j \in after : i <= j
    IN SubSeq(sorted, 1, at - 1) \o <<option>> \o SubSeq(sorted, at, Len(sorted))

RECURSIVE SortByLabelInto(_, _)
SortByLabelInto(sorted, options) ==
    IF options = <<>> THEN sorted
    ELSE SortByLabelInto(InsertByLabel(sorted, Head(options)), Tail(options))

\* Lines 23-87: the dataset built of the rows of the three fetches.
BuildResponse(districtRows, municipalitiesRows, parishesRows) ==
    [districts |->
         SortByLabelInto(<<>>, AreaMapValues(
             UpsertRows("district", districtRows, 1, Len(districtRows), <<>>))),
     municipalities |->
         SortByLabelInto(<<>>, AreaMapValues(
             UpsertRows("municipality", municipalitiesRows, 1, Len(municipalitiesRows), <<>>))),
     parishes |->
         SortByLabelInto(<<>>, AreaMapValues(
             UpsertRows("parish", parishesRows, 1, Len(parishesRows), <<>>)))]

(***************************************************************************)
(* The route GET /api/pt-admin: fetchAllPages and the cache                *)
(***************************************************************************)
\* Line 6.
LIMIT == 100

\* Line 7.
CACHE_MS == 12 * 60 * 60 * 1000

\* Lines 115-128: the datasets of the three fetches.
Distrito == "georef-portugal-distrito"

Concelho == "georef-portugal-concelho"

Freguesia == "georef-portugal-freguesia"

DatasetIds == {Distrito, Concelho, Freguesia}

\* A response that is taken for a page when its status is 404, too.
ResponseOkOrNotFound(status) == status \in 200..299 \/ status = 404

\* Line 140: response.ok
ResponseOk(status) == status \in 200..299

\* A cache entry that is still served when it is exactly CACHE_MS old.
CacheIsFreshInclusive(cached_, now_) == cached_ # <<>> /\ now_ - cached_[1].at <= CACHE_MS

\* Line 13: cached && now - cached.at < CACHE_MS
CacheIsFresh(cached_, now_) == cached_ # <<>> /\ now_ - cached_[1].at < CACHE_MS

\* A loop with the break of line 147 alone.
FetchBreaksOnShortPage(rowCount, offset_, total_count) == rowCount < LIMIT

\* Lines 147-148: the two breaks of the loop, offset being the offset after the
\* page; total_count is <<>> when the payload has no number there.
FetchBreaks(rowCount, offset_, total_count) ==
    \/ rowCount < LIMIT
    \/ total_count # <<>> /\ offset_ >= total_count[1]

\* The rows the external service holds: row i of a dataset has one of a few names
\* and its own point; the rows of the second name have no point.
MunicipalityRow(con_name_, dis_name_, point) ==
    [con_name |-> con_name_, dis_name |-> dis_name_, geo_point_2d |-> point]

ParishRow(fre_name_, con_name_, dis_name_, point) ==
    [fre_name |-> fre_name_, con_name |-> con_name_, dis_name |-> dis_name_,
     geo_point_2d |-> point]

PointOfRow(i, name) == IF name = 2 THEN <<>> ELSE Point(Fraction(i, 1), Fraction(-i, 1))

DistritoNames == <<Lisboa, Porto, NULL>>

ConcelhoNames == <<<<Lisboa, Lisboa>>, <<Matosinhos, Porto>>, <<Blank, Porto>>>>

FreguesiaNames == <<<<Alvalade, Lisboa, Lisboa>>, <<Flores, Matosinhos, Porto>>>>

UpstreamRow(dataset, i) ==
    CASE dataset = Distrito ->
            DistrictRow(DistritoNames[(i % 3) + 1], PointOfRow(i, (i % 3) + 1))
      [] dataset = Concelho ->
            MunicipalityRow(ConcelhoNames[(i % 3) + 1][1], ConcelhoNames[(i % 3) + 1][2],
                            PointOfRow(i, (i % 3) + 1))
      [] dataset = Freguesia ->
            ParishRow(FreguesiaNames[(i % 2) + 1][1], FreguesiaNames[(i % 2) + 1][2],
                      FreguesiaNames[(i % 2) + 1][3], PointOfRow(i, (i % 2) + 1))

UpstreamRows(dataset, count) == [i \in 1..count |-> UpstreamRow(dataset, i)]

\* The most pages a dataset of the external service fills.
MaxPages == 2

UpstreamCounts ==
    {[d \in DatasetIds |-> 2],
     [d \in DatasetIds |-> IF d = Freguesia THEN (MaxPages - 1) * LIMIT + 1 ELSE 3],
     [d \in DatasetIds |-> IF d = Concelho THEN (MaxPages - 1) * LIMIT ELSE 0]}

Upstreams == [rows : UpstreamCounts, reportsTotal : BOOLEAN]

\* The statuses the external service answers a page request with.
Statuses == {200, 404, 503}

\* The payload of a response to the request at an offset, from a service that
\* holds count rows of the dataset: a page of them when the status is 200, and a
\* payload without results and total_count otherwise.  A missing field is <<>>.
PayloadFor(dataset, count, reportsTotal, offset_, status) ==
    IF status = 200
    THEN [total_count |-> IF reportsTotal THEN <<count>> ELSE <<>>,
          results |-> <<[i \in 1..(Min(offset_ + LIMIT, count) - Min(offset_, count)) |->
                            UpstreamRow(dataset, offset_ + i)]>>]
    ELSE [total_count |-> <<>>, results |-> <<>>]

\* Line 144: payload.results ?? []
ResultsOf(payload) == IF payload.results = <<>> THEN <<>> ELSE payload.results[1]

\* Lines 131-132 and the first request of line 136.  Next to the locals offset and
\* out, a call keeps the offsets it asked for, the statuses it was answered with
\* and the number of rows of each page it took.
FetchStarted ==
    [offset |-> 0, out |-> <<>>, pc |-> "await", asked |-> <<0>>, statuses |-> <<>>,
     got |-> <<>>]

NoFetch ==
    [offset |-> 0, out |-> <<>>, pc |-> "none", asked |-> <<>>, statuses |-> <<>>,
     got |-> <<>>]

\* A loop that, when it goes on, asks for the next two pages at once.
AfterPageAsksAhead(call, status, payload) ==
    LET rows == ResultsOf(payload)
        ends == FetchBreaks(Len(rows), call.offset + Len(rows), payload.total_count)
    IN [offset |-> call.offset + Len(rows),
        out |-> call.out \o rows,
        pc |-> IF ends THEN "done" ELSE "await",
        asked |-> IF ends THEN call.asked
                  ELSE call.asked \o <<call.offset + Len(rows), call.offset + Len(rows) + LIMIT>>,
        statuses |-> Append(call.statuses, status),
        got |-> Append(call.got, Len(rows))]

\* Lines 143-148: the locals after a page, and the next request if the loop goes on.
AfterPage(call, status, payload) ==
    LET rows == ResultsOf(payload)
        ends == FetchBreaks(Len(rows), call.offset + Len(rows), payload.total_count)
    IN [offset |-> call.offset + Len(rows),
        out |-> call.out \o rows,
        pc |-> IF ends THEN "done" ELSE "await",
        asked |-> IF ends THEN call.asked ELSE Append(call.asked, call.offset + Len(rows)),
        statuses |-> Append(call.statuses, status),
        got |-> Append(call.got, Len(rows))]

\* The instants the clock shows, counted in milliseconds from the first.
Instants == {0, CACHE_MS - 1, CACHE_MS, 2 * CACHE_MS}

RouteInit ==
    /\ now = 0
    /\ upstream \in Upstreams
    /\ cached = <<>>
    /\ cachedBefore = <<>>
    /\ getNow = 0
    /\ fetch = [d \in DatasetIds |-> NoFetch]
    /\ routePc = "idle"
    /\ response = <<>>
    /\ indexPc = "idle"
    /\ indexCalledAt = 0
    /\ indexBuiltAt = 0
    /\ indexReturned = <<>>

RouteIdle ==
    /\ now = 0
    /\ upstream = [rows |-> [d \in DatasetIds |-> 0], reportsTotal |-> FALSE]
    /\ cached = <<>>
    /\ cachedBefore = <<>>
    /\ getNow = 0
    /\ fetch = [d \in DatasetIds |-> NoFetch]
    /\ routePc = "idle"
    /\ response = <<>>
    /\ indexPc = "idle"
    /\ indexCalledAt = 0
    /\ indexBuiltAt = 0
    /\ indexReturned = <<>>

\* Time passes between two GETs: the instants lie far apart, and a GET falls
\* between two of them.
Tick ==
    /\ routePc = "idle"
    /\ \E t \in Instants : t > now /\ now' = t
    /\ UNCHANGED outsideRoute
    /\ UNCHANGED <<upstream, cached, cachedBefore, getNow, fetch, routePc, response,
                   indexPc, indexCalledAt, indexBuiltAt, indexReturned,
                   cachedPortugalAdminIndex>>

\* A GET reaches the route, one at a time: the request of the client's call
\* once that is sent, or the request of anybody else.
GetArrives ==
    /\ routePc = "idle"
    /\ indexPc' \in {indexPc} \cup (IF indexPc = "await" THEN {"served"} ELSE {})
    /\ getNow' = now
    /\ cachedBefore' = cached

\* The GET is over and its locals are gone.
GetIsOver ==
    /\ routePc' = "idle"
    /\ getNow' = 0
    /\ cachedBefore' = <<>>
    /\ fetch' = [d \in DatasetIds |-> NoFetch]
    /\ response' = <<>>

\* The response reaches a caller other than the client's call.
GetReturns ==
    /\ routePc = "responded"
    /\ indexPc # "served"
    /\ UNCHANGED outsideRoute
    /\ GetIsOver
    /\ UNCHANGED <<now, upstream, cached, indexPc, indexCalledAt, indexBuiltAt,
                   indexReturned, cachedPortugalAdminIndex>>

\* Lines 12-15: the cache entry is served.
GetServesCached ==
    /\ GetArrives
    /\ UNCHANGED outsideRoute
    /\ CacheIsFresh(cached, now)
    /\ response' = <<[status |-> 200, body |-> cached[1].data]>>
    /\ fetch' = [d \in DatasetIds |-> NoFetch]
    /\ routePc' = "responded"
    /\ UNCHANGED <<now, upstream, cached, indexCalledAt, indexBuiltAt, indexReturned,
                   cachedPortugalAdminIndex>>

\* Lines 12-22: no entry to serve; the three fetches send their first request.
GetStartsRefresh ==
    /\ GetArrives
    /\ UNCHANGED outsideRoute
    /\ ~CacheIsFresh(cached, now)
    /\ response' = <<>>
    /\ fetch' = [d \in DatasetIds |-> FetchStarted]
    /\ routePc' = "fetching"
    /\ UNCHANGED <<now, upstream, cached, indexCalledAt, indexBuiltAt, indexReturned,
                   cachedPortugalAdminIndex>>

\* The call of fetchAllPages for dataset d after the response with this status to
\* its request in flight.
PageReceived(d, status) ==
    CHOOSE after \in
        {AfterPage(fetch[d], status, payload) :
            payload \in {PayloadFor(d, upstream.rows[d], upstream.reportsTotal,
                                    fetch[d].offset, status)}} : TRUE

\* Lines 136-148: a page is received and the loop asks for the next one.
PageContinues ==
    /\ routePc = "fetching"
    /\ UNCHANGED outsideRoute
    /\ \E d \in DatasetIds, status \in Statuses :
          /\ fetch[d].pc = "await"
          /\ ResponseOk(status)
          /\ \E after \in {PageReceived(d, status)} :
                /\ after.pc = "await"
                /\ fetch' = [fetch EXCEPT ![d] = after]
    /\ UNCHANGED <<now, upstream, cached, cachedBefore, getNow, routePc, response,
                   indexPc, indexCalledAt, indexBuiltAt, indexReturned,
                   cachedPortugalAdminIndex>>

\* Lines 136-151: a page is received and the loop breaks; out is returned while
\* another fetch is still under way.
PageEnds ==
    /\ routePc = "fetching"
    /\ UNCHANGED outsideRoute
    /\ \E d \in DatasetIds, status \in Statuses :
          /\ fetch[d].pc = "await"
          /\ ResponseOk(status)
          /\ \E other \in DatasetIds \ {d} : fetch[other].pc # "done"
          /\ \E after \in {PageReceived(d, status)} :
                /\ after.pc = "done"
                /\ fetch' = [fetch EXCEPT ![d] = after]
    /\ UNCHANGED <<now, upstream, cached, cachedBefore, getNow, routePc, response,
                   indexPc, indexCalledAt, indexBuiltAt, indexReturned,
                   cachedPortugalAdminIndex>>

\* Lines 136-151 and 18-90: the last of the three fetches returns; the dataset is
\* built, cached and sent.
GetResponds ==
    /\ routePc = "fetching"
    /\ UNCHANGED outsideRoute
    /\ \E d \in DatasetIds, status \in Statuses :
          /\ fetch[d].pc = "await"
          /\ ResponseOk(status)
          /\ \A other \in DatasetIds \ {d} : fetch[other].pc = "done"
          /\ \E after \in {PageReceived(d, status)} :
                /\ after.pc = "done"
                /\ fetch' = [fetch EXCEPT ![d] = after]
                /\ \E returned \in {[fetch EXCEPT ![d] = after]} :
                   \E built \in {BuildResponse(returned[Distrito].out, returned[Concelho].out,
                                               returned[Freguesia].out)} :
                      /\ cached' = <<[at |-> getNow, data |-> built]>>
                      /\ response' = <<[status |-> 200, body |-> built]>>
    /\ routePc' = "responded"
    /\ UNCHANGED <<now, upstream, cachedBefore, getNow, indexPc, indexCalledAt,
                   indexBuiltAt, indexReturned, cachedPortugalAdminIndex>>

\* Lines 140-142 and 91-94: a response is not ok; fetchAllPages throws, Promise.all
\* rejects and the catch answers 502.  What the other fetches still receive
\* reaches nothing that the route keeps.
GetFails ==
    /\ routePc = "fetching"
    /\ UNCHANGED outsideRoute
    /\ \E d \in DatasetIds, status \in Statuses :
          /\ fetch[d].pc = "await"
          /\ ~ResponseOk(status)
          /\ fetch' = [fetch EXCEPT ![d].pc = "failed",
                                     ![d].statuses = Append(@, status)]
    /\ response' = <<[status |-> 502, body |-> "message"]>>
    /\ routePc' = "responded"
    /\ UNCHANGED <<now, upstream, cached, cachedBefore, getNow, indexPc, indexCalledAt,
                   indexBuiltAt, indexReturned, cachedPortugalAdminIndex>>

\* part_003 lines 494-496: getPortugalAdminIndex returns the cached index.
IndexCallHit ==
    /\ indexPc \in {"idle", "returned", "failed"}
    /\ routePc = "idle"
    /\ UNCHANGED outsideRoute
    /\ cachedPortugalAdminIndex # <<>>
    /\ indexCalledAt' = now
    /\ indexReturned' = cachedPortugalAdminIndex
    /\ indexPc' = "returned"
    /\ UNCHANGED <<now, upstream, cached, cachedBefore, getNow, fetch, routePc, response,
                   indexBuiltAt, cachedPortugalAdminIndex>>

\* part_003 lines 497 and 132: no cached index; the GET is sent.
IndexCallMiss ==
    /\ indexPc \in {"idle", "returned", "failed"}
    /\ routePc = "idle"
    /\ UNCHANGED outsideRoute
    /\ cachedPortugalAdminIndex = <<>>
    /\ indexCalledAt' = now
    /\ indexReturned' = <<>>
    /\ indexPc' = "await"
    /\ UNCHANGED <<now, upstream, cached, cachedBefore, getNow, fetch, routePc, response,
                   indexBuiltAt, cachedPortugalAdminIndex>>

\* part_003 lines 133-137 and 498-499: the response is ok; the index is built of
\* its dataset, cached and returned.
IndexReceives ==
    /\ indexPc = "served"
    /\ routePc = "responded"
    /\ UNCHANGED outsideRoute
    /\ ResponseOk(response[1].status)
    /\ cachedPortugalAdminIndex' = <<buildPortugalAdminIndex(response[1].body)>>
    /\ indexReturned' = cachedPortugalAdminIndex'
    /\ indexBuiltAt' = now
    /\ indexPc' = "returned"
    /\ GetIsOver
    /\ UNCHANGED <<now, upstream, cached, indexCalledAt>>

\* part_003 lines 133-135: the response is not ok and the call throws.
IndexFetchFails ==
    /\ indexPc = "served"
    /\ routePc = "responded"
    /\ UNCHANGED outsideRoute
    /\ ~ResponseOk(response[1].status)
    /\ indexPc' = "failed"
    /\ GetIsOver
    /\ UNCHANGED <<now, upstream, cached, indexCalledAt, indexBuiltAt, indexReturned,
                   cachedPortugalAdminIndex>>

(***************************************************************************)
(* normalizeLocationPart, call by call                                     *)
(***************************************************************************)
LisboaLower ==
    <<"l", "i", "s", "b", "o", "a">>

EvoraPlain ==
    <<"e", "v", "o", "r", "a">>

\* The capitals of the word with the accent as a combining mark after its letter.
EvoraDecomposedUpper ==
    <<"E", CombiningAcute, "V", "O", "R", "A">>

\* The ways a word is written: they differ in the case of letters and in accents.
WordForms ==
    [lisboa |-> {LisboaLower, Lisboa}, evora |-> {EvoraPlain, Evora, EvoraDecomposedUpper}]

\* The words of a text, in order.
WordLists == { <<"lisboa">>, <<"evora">>, <<"lisboa", "evora">> }

\* Runs of white space between two words, and around a text.
Gaps == { <<" ">>, <<" ", "\t">> }

Paddings == { << <<>>, <<>> >>, << <<>>, <<" ">> >>, << <<"\t">>, <<NBSP, " ">> >> }

\* The texts that are written with the given words.
Writings(words) ==
    IF Len(words) = 1
    THEN {padding[1] \o form \o padding[2] :
             form \in WordForms[words[1]], padding \in Paddings}
    ELSE {padding[1] \o first \o gap \o second \o padding[2] :
             first \in WordForms[words[1]], second \in WordForms[words[2]],
             gap \in Gaps, padding \in Paddings}

NormalizeTexts == UNION {Writings(words) : words \in WordLists}

NormalizeInit ==
    /\ normalizeArgs \in NormalizeTexts \X NormalizeTexts
    /\ normalizeKeys = <<>>

NormalizeIdle ==
    /\ normalizeArgs = <<>>
    /\ normalizeKeys = <<>>

\* Lines 433-440 on the first text.
NormalizeFirst ==
    /\ normalizeArgs # <<>>
    /\ Len(normalizeKeys) = 0
    /\ normalizeKeys' = <<normalizeLocationPart(normalizeArgs[1])>>
    /\ UNCHANGED <<normalizeArgs, outsideNormalize>>

\* Lines 433-440 on the second text.
NormalizeSecond ==
    /\ Len(normalizeKeys) = 1
    /\ normalizeKeys' = Append(normalizeKeys, normalizeLocationPart(normalizeArgs[2]))
    /\ UNCHANGED <<normalizeArgs, outsideNormalize>>

\* Lines 433-440 on what the first call returned.
NormalizeKey ==
    /\ Len(normalizeKeys) = 2
    /\ normalizeKeys' = Append(normalizeKeys, normalizeLocationPart(normalizeKeys[1]))
    /\ UNCHANGED <<normalizeArgs, outsideNormalize>>

(***************************************************************************)
(* The routes GET /api/pt-admin/geometry and /api/pt-admin/geometry-list   *)
(***************************************************************************)
\* searchParams.get("level") || "": a parameter is <<>> when the URL has none.
LevelOf(param) == IF param = <<>> THEN "" ELSE param[1]

\* A test that takes every AdminLevel: "country" as well.
IsAdminLevel(level) == level \in {"country", "district", "municipality", "parish"}

\* route.ts line 189 and part_005 line 13.
IsGeometryLevel(level) == level \in {"district", "municipality", "parish"}

\* String.prototype.replaceAll of one character.
RECURSIVE replaceAll(_, _, _)
replaceAll(s, c, with) ==
    IF s = <<>> THEN <<>>
    ELSE (IF Head(s) = c THEN with ELSE <<Head(s)>>) \o replaceAll(Tail(s), c, with)

\* route.ts lines 261-264: the text field="escaped".
buildWhereEquals(field, value) ==
    field \o <<"=", "\"">> \o
    replaceAll(replaceAll(value, "\\", <<"\\", "\\">>), "\"", <<"\\", "\"">>)
    \o <<"\"">>

DisName == <<"d", "i", "s", "_", "n", "a", "m", "e">>

ConName == <<"c", "o", "n", "_", "n", "a", "m", "e">>

FreName == <<"f", "r", "e", "_", "n", "a", "m", "e">>

WhereIf(field, value) == IF value = <<>> THEN <<>> ELSE <<buildWhereEquals(field, value)>>

\* route.ts lines 214-231: the dataset of a level, "" when the level has none.
GeometryDataset(level) ==
    CASE level = "district" -> Distrito
      [] level = "municipality" -> Concelho
      [] level = "parish" -> Freguesia
      [] OTHER -> ""

\* route.ts lines 214-231: whereParts.
GeometryWhere(level, district_, municipality_, parish_) ==
    CASE level = "district" -> WhereIf(DisName, district_)
      [] level = "municipality" ->
            WhereIf(DisName, district_) \o WhereIf(ConName, municipality_)
      [] level = "parish" ->
            WhereIf(DisName, district_) \o WhereIf(ConName, municipality_)
            \o WhereIf(FreName, parish_)
      [] OTHER -> <<>>

\* part_005 lines 37-50: the dataset, every level but the two named being a parish.
GeometryListDataset(level) ==
    CASE level = "district" -> Distrito
      [] level = "municipality" -> Concelho
      [] OTHER -> Freguesia

\* part_005 lines 37-50: whereParts.
GeometryListWhere(level, district_, municipality_) ==
    CASE level = "district" -> <<>>
      [] level = "municipality" -> WhereIf(DisName, district_)
      [] OTHER -> WhereIf(DisName, district_) \o WhereIf(ConName, municipality_)

\* route.ts lines 233-244 and part_005 lines 55-66: a request to the service.
GeometryQuery(dataset_, where_, limit_, offset_) ==
    [dataset |-> dataset_, where |-> where_, limit |-> limit_, offset |-> offset_]

\* The kinds of geo_shape.geometry a row has: "none" for a row without one.
ShapeTypes == {"Polygon", "MultiPolygon", "Point", "none"}

ShapeOfRow(first, i) ==
    IF i = 1 THEN first
    ELSE IF i % 50 = 0 THEN "Polygon"
    ELSE IF i = LIMIT + 1 THEN "MultiPolygon" ELSE "Point"

\* Row i of what the service finds in a dataset.
GeometryRow(dataset_, first, i) ==
    [dis_name |-> IF dataset_ = Distrito THEN DistritoNames[(i % 3) + 1]
                  ELSE IF dataset_ = Concelho THEN ConcelhoNames[(i % 3) + 1][2]
                  ELSE FreguesiaNames[(i % 2) + 1][3],
     con_name |-> IF dataset_ = Distrito THEN NULL
                  ELSE IF dataset_ = Concelho THEN ConcelhoNames[(i % 3) + 1][1]
                  ELSE FreguesiaNames[(i % 2) + 1][2],
     fre_name |-> IF dataset_ = Freguesia THEN FreguesiaNames[(i % 2) + 1][1] ELSE NULL,
     geo_shape |-> ShapeOfRow(first, i)]

\* The rows of the response to a query.
GeometryResults(service, query) ==
    [i \in 1..(Min(query.offset + query.limit, service.rows) - Min(query.offset, service.rows))
        |-> GeometryRow(query.dataset, service.first, query.offset + i)]

IsPolygon(shape) == shape \in {"Polygon", "MultiPolygon"}

\* route.ts lines 254-258: the geometry of the first row, <<>> for null.
GeometryOf(rows) ==
    IF rows = <<>> THEN <<>>
    ELSE IF IsPolygon(rows[1].geo_shape) THEN <<[type |-> rows[1].geo_shape]>> ELSE <<>>

\* value?.trim() || undefined, with "" for undefined
TrimmedOrEmpty(value) == IF IsNull(value) THEN <<>> ELSE trim(value)

AreaLabel ==
    <<"A", "r", "e", "a">>

LevelText(level) ==
    CASE level = "district" -> <<"d", "i", "s", "t", "r", "i", "c", "t">>
      [] level = "municipality" ->
            <<"m", "u", "n", "i", "c", "i", "p", "a", "l", "i", "t", "y">>
      [] OTHER -> <<"p", "a", "r", "i", "s", "h">>

\* part_005 lines 80-100: the item made of a row that has a polygon.
GeometryItem(level, row) ==
    LET rowDistrict == TrimmedOrEmpty(row.dis_name)
        rowMunicipality == TrimmedOrEmpty(row.con_name)
        rowParish == TrimmedOrEmpty(row.fre_name)
    IN [id |-> LevelText(level) \o <<":">> \o toLowerCase(rowDistrict) \o <<":">>
               \o toLowerCase(rowMunicipality) \o <<":">> \o toLowerCase(rowParish),
        label |-> IF rowParish # <<>> THEN rowParish
                  ELSE IF rowMunicipality # <<>> THEN rowMunicipality
                  ELSE IF rowDistrict # <<>> THEN rowDistrict ELSE AreaLabel,
        level |-> level,
        district |-> rowDistrict,
        municipality |-> rowMunicipality,
        parish |-> rowParish,
        geometry |-> [type |-> row.geo_shape]]

\* part_005 lines 79-101: what a page adds to out.
GeometryItems(level, rows) ==
    LET kept == SelectSeq(rows, LAMBDA row : IsPolygon(row.geo_shape))
    IN [i \in 1..Len(kept) |-> GeometryItem(level, kept[i])]

\* The numbers of rows the service finds, and the parameters of the requests.
GeometryCounts == {0, 2, LIMIT, LIMIT + 1}

GeometryServices == [rows : GeometryCounts, first : ShapeTypes, reportsTotal : BOOLEAN]

LevelParams ==
    {<<>>} \cup {<<level>> : level \in {"", "country", "District", "district",
                                       "municipality", "parish"}}

QuotedName ==
    <<"A", "\"", "b", "\\">>

GeometryRequests ==
    [route : {"geometry", "geometry-list"}, level : LevelParams,
     district : {NULL, Lisboa}, municipality : {NULL, QuotedName}, parish : {NULL, Alvalade}]

GeometryInit ==
    /\ geoRequest \in GeometryRequests
    /\ geoService \in GeometryServices
    /\ geoSent = <<>>
    /\ geoOffset = 0
    /\ geoOut = <<>>
    /\ geoPc = "start"
    /\ geoResponse = <<>>

GeometryIdle ==
    /\ geoRequest = <<>>
    /\ geoService = <<>>
    /\ geoSent = <<>>
    /\ geoOffset = 0
    /\ geoOut = <<>>
    /\ geoPc = "idle"
    /\ geoResponse = <<>>

\* route.ts lines 189-191 and part_005 lines 13-15: the level is none of the three.
GeometryRejects ==
    /\ geoPc = "start"
    /\ ~IsGeometryLevel(LevelOf(geoRequest.level))
    /\ geoResponse' = <<[status |-> 400, body |-> "message"]>>
    /\ geoPc' = "responded"
    /\ UNCHANGED <<geoRequest, geoService, geoSent, geoOffset, geoOut, outsideGeometry>>

\* route.ts lines 184-187, 194 and 209-244: fetchGeometry sends its request.
GeometryAsks ==
    /\ geoPc = "start"
    /\ geoRequest.route = "geometry"
    /\ IsGeometryLevel(LevelOf(geoRequest.level))
    /\ geoSent' = <<GeometryQuery(
           GeometryDataset(LevelOf(geoRequest.level)),
           GeometryWhere(LevelOf(geoRequest.level), OrEmpty(geoRequest.district),
                         OrEmpty(geoRequest.municipality), OrEmpty(geoRequest.parish)),
           1, 0)>>
    /\ geoPc' = "await"
    /\ UNCHANGED <<geoRequest, geoService, geoOffset, geoOut, geoResponse, outsideGeometry>>

\* route.ts lines 249-258 and 195-196: the response is ok; the geometry is sent.
GeometryResponds ==
    /\ geoPc = "await"
    /\ geoRequest.route = "geometry"
    /\ \E status \in Statuses :
          /\ ResponseOk(status)
          /\ geoResponse' =
                <<[status |-> 200,
                   body |-> [level |-> LevelOf(geoRequest.level),
                             geometry |-> GeometryOf(GeometryResults(geoService, geoSent[1]))]]>>
    /\ geoPc' = "responded"
    /\ UNCHANGED <<geoRequest, geoService, geoSent, geoOffset, geoOut, outsideGeometry>>

\* part_005 lines 9-11, 18 and 32-66: fetchGeometryList sends its first request.
GeometryListAsks ==
    /\ geoPc = "start"
    /\ geoRequest.route = "geometry-list"
    /\ IsGeometryLevel(LevelOf(geoRequest.level))
    /\ geoSent' = <<GeometryQuery(
           GeometryListDataset(LevelOf(geoRequest.level)),
           GeometryListWhere(LevelOf(geoRequest.level), OrEmpty(geoRequest.district),
                             OrEmpty(geoRequest.municipality)),
           LIMIT, 0)>>
    /\ geoPc' = "await"
    /\ UNCHANGED <<geoRequest, geoService, geoOffset, geoOut, geoResponse, outsideGeometry>>

\* part_005 lines 70-104: the rows of a page, and whether the loop breaks on it.
GeometryListPage == GeometryResults(geoService, geoSent[Len(geoSent)])

GeometryListBreaks(rows) ==
    FetchBreaks(Len(rows), geoOffset + Len(rows),
                IF geoService.reportsTotal THEN <<geoService.rows>> ELSE <<>>)

\* part_005 lines 53-104: a page is received and the loop asks for the next one.
GeometryListContinues ==
    /\ geoPc = "await"
    /\ geoRequest.route = "geometry-list"
    /\ \E status \in Statuses, rows \in {GeometryListPage} :
          /\ ResponseOk(status)
          /\ ~GeometryListBreaks(rows)
          /\ geoOut' = geoOut \o GeometryItems(LevelOf(geoRequest.level), rows)
          /\ geoOffset' = geoOffset + Len(rows)
          /\ geoSent' = Append(geoSent,
                [geoSent[1] EXCEPT !.offset = geoOffset + Len(rows)])
    /\ UNCHANGED <<geoRequest, geoService, geoPc, geoResponse, outsideGeometry>>

\* part_005 lines 70-107 and 19-20: the loop breaks; the items are sorted and sent.
GeometryListResponds ==
    /\ geoPc = "await"
    /\ geoRequest.route = "geometry-list"
    /\ \E status \in Statuses, rows \in {GeometryListPage} :
          /\ ResponseOk(status)
          /\ GeometryListBreaks(rows)
          /\ geoOut' = geoOut \o GeometryItems(LevelOf(geoRequest.level), rows)
          /\ geoOffset' = geoOffset + Len(rows)
          /\ geoResponse' =
                <<[status |-> 200,
                   body |-> [level |-> LevelOf(geoRequest.level),
                             items |-> SortByLabelInto(<<>>, geoOut')]]>>
    /\ geoPc' = "responded"
    /\ UNCHANGED <<geoRequest, geoService, geoSent, outsideGeometry>>

\* route.ts lines 245-247 and 197-200, part_005 lines 64-66 and 21-24: a response
\* is not ok; the fetch throws and the catch answers 502.
GeometryFails ==
    /\ geoPc = "await"
    /\ \E status \in Statuses : ~ResponseOk(status)
    /\ geoResponse' = <<[status |-> 502, body |-> "message"]>>
    /\ geoPc' = "responded"
    /\ UNCHANGED <<geoRequest, geoService, geoSent, geoOffset, geoOut, outsideGeometry>>

(***************************************************************************)
(* dedupeAdminSelections and the component AdminAreaMapSelector            *)
(***************************************************************************)
PT ==
    <<"P", "T">>

\* An AdminSelection: a field that is absent is <<>>, as an empty one is.
AdminSelection(country_, district_, municipality_, parish_) ==
    [country |-> country_, district |-> district_, municipality |-> municipality_,
     parish |-> parish_]

\* part_003 lines 214-219, and lines 177-182 of the component: the four parts
\* joined with "|".
SelectionKey(country_, item) ==
    toUpperCase(country_) \o <<"|">> \o toLowerCase(item.district) \o <<"|">>
    \o toLowerCase(item.municipality) \o <<"|">> \o toLowerCase(item.parish)

\* item.country || "PT"
CountryOrPT(item) == IF item.country = <<>> THEN PT ELSE item.country

\* part_003 lines 220-225: the value set for a key.
DedupedItem(item) ==
    AdminSelection(toUpperCase(CountryOrPT(item)), item.district, item.municipality,
                   item.parish)

\* A Map.set that keeps the value a key has.
ByKeySetIfAbsent(byKey, key_, item) ==
    IF AreaMapHas(byKey, key_) THEN byKey
    ELSE Append(byKey, [key |-> key_, value |-> item])

\* Map.set on a Map in the order of insertion: the value of a key that is there
\* is replaced where it stands.
ByKeySet(byKey, key_, item) ==
    IF AreaMapHas(byKey, key_)
    THEN [byKey EXCEPT ![AreaMapAt(byKey, key_)] = [key |-> key_, value |-> item]]
    ELSE Append(byKey, [key |-> key_, value |-> item])

\* part_003 lines 213-226: the loop.
RECURSIVE DedupeInto(_, _)
DedupeInto(byKey, selections) ==
    IF selections = <<>> THEN byKey
    ELSE DedupeInto(ByKeySet(byKey, SelectionKey(CountryOrPT(Head(selections)),
                                                 Head(selections)),
                             DedupedItem(Head(selections))),
                    Tail(selections))

\* part_003 lines 211-228.
dedupeAdminSelections(selections) == AreaMapValues(DedupeInto(<<>>, selections))

\* Lines 113-125 of the component: nextItem, <<>> for null.
NextItem(level, picked) ==
    CASE level = "country" -> <<AdminSelection(PT, <<>>, <<>>, <<>>)>>
      [] level = "district" /\ picked.district # <<>> ->
            <<AdminSelection(PT, picked.district, <<>>, <<>>)>>
      [] level = "municipality" /\ picked.district # <<>> /\ picked.municipality # <<>> ->
            <<AdminSelection(PT, picked.district, picked.municipality, <<>>)>>
      [] level = "parish" /\ picked.district # <<>> /\ picked.municipality # <<>>
            /\ picked.parish # <<>> ->
            <<AdminSelection(PT, picked.district, picked.municipality, picked.parish)>>
      [] OTHER -> <<>>

\* Lines 131-145 of the component: the list without the items of the key.
WithoutKeyOf(list, item) ==
    SelectSeq(list, LAMBDA candidate :
        SelectionKey(candidate.country, candidate) # SelectionKey(item.country, item))

\* Lines 163-176 of the component.
selectionFromArea(area) ==
    IF area.level = "district" THEN AdminSelection(PT, area.district, <<>>, <<>>)
    ELSE IF area.level = "municipality"
         THEN AdminSelection(PT, area.district, area.municipality, <<>>)
    ELSE AdminSelection(PT, area.district, area.municipality, area.parish)

\* value ?? otherwise of a field that is NULL when the area has none
OrElse(v, otherwise) == IF IsNull(v) THEN otherwise ELSE v

\* Lines 194-207 of the component: the pickers after a click on an area.
PickedAfterClick(area, picked) ==
    CASE area.level = "district" ->
            [district |-> OrElse(area.districtField, area.label), municipality |-> <<>>,
             parish |-> <<>>]
      [] area.level = "municipality" ->
            [district |-> OrElse(area.districtField, picked.district),
             municipality |-> OrElse(area.municipalityField, area.label), parish |-> <<>>]
      [] area.level = "parish" ->
            [district |-> OrElse(area.districtField, picked.district),
             municipality |-> OrElse(area.municipalityField, picked.municipality),
             parish |-> OrElse(area.parishField, area.label)]
      [] OTHER -> picked

\* An AdminAreaGeometryItem: the fields district, municipality and parish are NULL
\* when the item has none.
Area(level_, district_, municipality_, parish_, label_) ==
    [level |-> level_, districtField |-> district_, municipalityField |-> municipality_,
     parishField |-> parish_, label |-> label_,
     district |-> IF IsNull(district_) THEN <<>> ELSE district_,
     municipality |-> IF IsNull(municipality_) THEN <<>> ELSE municipality_,
     parish |-> IF IsNull(parish_) THEN <<>> ELSE parish_]

\* The polygons of the map, the options of the pickers, and the lists loaded.
AreaPool ==
    {Area("district", NULL, NULL, NULL, LisboaUpper),
     Area("municipality", LisboaUpper, Lisboa, NULL, Lisboa),
     Area("parish", Lisboa, Lisboa, Alvalade, Alvalade)}

DistrictOptions == {Lisboa}

MunicipalityOptions(district_) == IF district_ = Lisboa THEN {Lisboa} ELSE {}

ParishOptions(district_, municipality_) ==
    IF district_ = Lisboa /\ municipality_ = Lisboa THEN {Alvalade} ELSE {}

LoadedItems ==
    {AdminSelection(<<"p", "t">>, <<>>, <<>>, <<>>),
     AdminSelection(PT, Lisboa, <<>>, <<>>),
     AdminSelection(PT, LisboaUpper, <<>>, <<>>),
     AdminSelection(PT, Lisboa, Lisboa, <<>>)}

\* The most items of a list that is loaded.
MaxLoaded == 3

LoadedLists == UNION {[1..n -> LoadedItems] : n \in 0..MaxLoaded}

NothingPicked == [district |-> <<>>, municipality |-> <<>>, parish |-> <<>>]

SelectorInit ==
    /\ selectorValue = <<>>
    /\ selectorPicked = NothingPicked
    /\ \E loaded \in LoadedLists : selectorCall = [op |-> "start", given |-> loaded]

SelectorIdle ==
    /\ selectorValue = <<>>
    /\ selectorPicked = NothingPicked
    /\ selectorCall = [op |-> "idle", given |-> <<>>]

\* part_003 line 208: the list the form loads is passed through
\* dedupeAdminSelections and becomes the value of the component.
SelectorLoads ==
    /\ selectorCall.op = "start"
    /\ selectorValue' = dedupeAdminSelections(selectorCall.given)
    /\ selectorCall' = [op |-> "load", given |-> selectorCall.given]
    /\ UNCHANGED <<selectorPicked, outsideSelector>>

\* Lines 56-60 of the component: the effect that puts the country into an empty
\* list.
SelectorDefaults ==
    /\ selectorCall.op \notin {"start", "idle"}
    /\ Len(selectorValue) = 0
    /\ selectorValue' = <<AdminSelection(PT, <<>>, <<>>, <<>>)>>
    /\ selectorCall' = [op |-> "default", given |-> <<>>]
    /\ UNCHANGED <<selectorPicked, outsideSelector>>

\* Lines 227-232, 246-250 and 261 of the component: a picker is changed.
SelectorPicks ==
    /\ selectorCall.op \notin {"start", "idle"}
    /\ \/ \E option \in DistrictOptions \cup {<<>>} :
             selectorPicked' = [district |-> option, municipality |-> <<>>, parish |-> <<>>]
       \/ /\ selectorPicked.district # <<>>
          /\ \E option \in MunicipalityOptions(selectorPicked.district) \cup {<<>>} :
                selectorPicked' = [selectorPicked EXCEPT !.municipality = option,
                                                          !.parish = <<>>]
       \/ /\ selectorPicked.municipality # <<>>
          /\ \E option \in ParishOptions(selectorPicked.district,
                                         selectorPicked.municipality) \cup {<<>>} :
                selectorPicked' = [selectorPicked EXCEPT !.parish = option]
    /\ selectorCall' = [op |-> "pick", given |-> <<>>]
    /\ UNCHANGED <<selectorValue, outsideSelector>>

\* Lines 112-127 of the component: addSelection.
SelectorAdds ==
    /\ selectorCall.op \notin {"start", "idle"}
    /\ \E level \in {"country", "district", "municipality", "parish"} :
          \E nextItem \in {NextItem(level, selectorPicked)} :
             /\ nextItem # <<>>
             /\ selectorValue' = dedupeAdminSelections(selectorValue \o nextItem)
             /\ selectorCall' = [op |-> "add", given |-> selectorValue \o nextItem]
    /\ UNCHANGED <<selectorPicked, outsideSelector>>

\* Lines 129-147 of the component: removeSelection of an item of the list.
SelectorRemoves ==
    /\ selectorCall.op \notin {"start", "idle"}
    /\ \E i \in 1..Len(selectorValue) :
          /\ selectorValue' = WithoutKeyOf(selectorValue, selectorValue[i])
          /\ selectorCall' = [op |-> "remove", given |-> <<selectorValue[i]>>]
    /\ UNCHANGED <<selectorPicked, outsideSelector>>

\* Lines 193-210 of the component: onAreaClick.
SelectorClicks ==
    /\ selectorCall.op \notin {"start", "idle"}
    /\ \E area \in AreaPool :
          /\ selectorPicked' = PickedAfterClick(area, selectorPicked)
          /\ selectorValue' = dedupeAdminSelections(selectorValue \o <<selectionFromArea(area)>>)
          /\ selectorCall' = [op |-> "click",
                              given |-> selectorValue \o <<selectionFromArea(area)>>]
    /\ UNCHANGED outsideSelector

(***************************************************************************)
(* The listing store written while getImportDashboardMetrics pages         *)
(***************************************************************************)
\* The most writes of is_active that fall into one call.
MaxChanges == 2

\* Tables of three rows with the ids 1, 2 and 3: all active, or the first not.
ChurnStores ==
    {<<[id |-> 1] @@ Listing(active, Buy, Finite(4), NULL, EvoraShouting),
       [id |-> 2] @@ Listing(TRUE, Rent, Finite(4), NiceFlat, MatosinhosPorto),
       [id |-> 3] @@ Listing(TRUE, Buy, NullNumber, T3Plus1ApartmentInCenter, AlvaladeLisboa)>> :
        active \in BOOLEAN}

ChurnInit == changes = <<>>

ChurnIdle == changes = <<>>

\* is_active of the row at this place of the table is written: true becomes
\* false, false becomes true.
Toggled(table, i) == [table EXCEPT ![i].is_active = ~table[i].is_active]

\* Between two range requests of the call (a page was counted, the next is not
\* yet asked for) a writer of the store activates or deactivates a listing.
ListingChanges ==
    /\ metricsPc = "request"
    /\ requested # <<>>
    /\ Len(changes) < MaxChanges
    /\ \E i \in 1..Len(listings_normalized) :
          /\ listings_normalized' = Toggled(listings_normalized, i)
          /\ changes' = Append(changes, listings_normalized[i].id)
    /\ UNCHANGED outsideChurn
    /\ UNCHANGED <<servedDataset, cachedPortugalAdminIndex, pageSize, adminIndex, offset,
                   regionMaps, typologyMap, totalBuy, totalRent, metricsPc, inFlight,
                   requested, processed, metrics>>

(***************************************************************************)
(* Two GETs of /api/pt-admin under way at once                             *)
(***************************************************************************)
\* No second GET: none has arrived, or its locals are gone.
NoGet ==
    [pc |-> "idle", now |-> 0, fetch |-> [d \in DatasetIds |-> NoFetch], response |-> <<>>]

OverlapInit == otherGet = NoGet

OverlapIdle == otherGet = NoGet

\* What the second GET leaves alone: the locals of the GET in hand, the clock,
\* the external service and the client's call.
BesideOtherGet ==
    /\ UNCHANGED outsideOverlap
    /\ UNCHANGED <<now, upstream, cachedBefore, getNow, fetch, routePc, response, indexPc,
                   indexCalledAt, indexBuiltAt, indexReturned>>

\* Time passes while the GET in hand awaits its fetches.
TimePassesMeanwhile ==
    /\ routePc = "fetching"
    /\ \E t \in Instants : t > now /\ now' = t
    /\ UNCHANGED outsideRoute
    /\ UNCHANGED <<upstream, cached, cachedBefore, getNow, fetch, routePc, response,
                   indexPc, indexCalledAt, indexBuiltAt, indexReturned,
                   cachedPortugalAdminIndex>>

\* Lines 12-15: the second GET arrives and is served the cache entry.
OtherGetServesCached ==
    /\ otherGet.pc = "idle"
    /\ CacheIsFresh(cached, now)
    /\ otherGet' = [pc |-> "responded", now |-> now,
                    fetch |-> [d \in DatasetIds |-> NoFetch],
                    response |-> <<[status |-> 200, body |-> cached[1].data]>>]
    /\ UNCHANGED cached
    /\ BesideOtherGet

\* Lines 12-22: the second GET arrives, finds no entry to serve and its three
\* fetches send their first request.
OtherGetStartsRefresh ==
    /\ otherGet.pc = "idle"
    /\ ~CacheIsFresh(cached, now)
    /\ otherGet' = [pc |-> "fetching", now |-> now,
                    fetch |-> [d \in DatasetIds |-> FetchStarted],
                    response |-> <<>>]
    /\ UNCHANGED cached
    /\ BesideOtherGet

\* The call of fetchAllPages of the second GET for dataset d after the response
\* with this status to its request in flight.
OtherPageReceived(d, status) ==
    CHOOSE after \in
        {AfterPage(otherGet.fetch[d], status, payload) :
            payload \in {PayloadFor(d, upstream.rows[d], upstream.reportsTotal,
                                    otherGet.fetch[d].offset, status)}} : TRUE

\* Lines 136-151: a fetch of the second GET receives a page, and either asks for
\* the next or returns while another of the three is still under way.
OtherPageArrives ==
    /\ otherGet.pc = "fetching"
    /\ \E d \in DatasetIds, status \in Statuses :
          /\ otherGet.fetch[d].pc = "await"
          /\ ResponseOk(status)
          /\ \E after \in {OtherPageReceived(d, status)} :
                /\ after.pc = "done" => \E other \in DatasetIds \ {d} :
                                            otherGet.fetch[other].pc # "done"
                /\ otherGet' = [otherGet EXCEPT !.fetch[d] = after]
    /\ UNCHANGED cached
    /\ BesideOtherGet

\* Lines 136-151 and 18-90: the last fetch of the second GET returns; the dataset
\* is built, cached with the const now of this GET, and sent.
OtherGetResponds ==
    /\ otherGet.pc = "fetching"
    /\ \E d \in DatasetIds, status \in Statuses :
          /\ otherGet.fetch[d].pc = "await"
          /\ ResponseOk(status)
          /\ \A other \in DatasetIds \ {d} : otherGet.fetch[other].pc = "done"
          /\ \E after \in {OtherPageReceived(d, status)} :
                /\ after.pc = "done"
                /\ \E returned \in {[otherGet.fetch EXCEPT ![d] = after]} :
                   \E built \in {BuildResponse(returned[Distrito].out, returned[Concelho].out,
                                               returned[Freguesia].out)} :
                      /\ cached' = <<[at |-> otherGet.now, data |-> built]>>
                      /\ otherGet' = [otherGet EXCEPT
                                         !.fetch = returned,
                                         !.pc = "responded",
                                         !.response = <<[status |-> 200, body |-> built]>>]
    /\ BesideOtherGet

\* Lines 140-142 and 91-94: a response to the second GET's fetches is not ok and
\* the catch answers 502.
OtherGetFails ==
    /\ otherGet.pc = "fetching"
    /\ \E d \in DatasetIds, status \in Statuses :
          /\ otherGet.fetch[d].pc = "await"
          /\ ~ResponseOk(status)
          /\ otherGet' = [otherGet EXCEPT
                             !.fetch[d].pc = "failed",
                             !.fetch[d].statuses = Append(@, status),
                             !.pc = "responded",
                             !.response = <<[status |-> 502, body |-> "message"]>>]
    /\ UNCHANGED cached
    /\ BesideOtherGet

\* The response of the second GET is with its caller and its locals are gone.
OtherGetReturns ==
    /\ otherGet.pc = "responded"
    /\ otherGet' = NoGet
    /\ UNCHANGED cached
    /\ BesideOtherGet

(***************************************************************************)
(* Specifications                                                          *)
(***************************************************************************)
vars == <<resolveVars, typologyVars, metricsVars, drillVars, mergeVars, routeVars, normalizeVars,
      geometryVars, selectorVars, churnVars, overlapVars>>

\* The paginated pass of getImportDashboardMetrics over a table that stays as it is.
Init == MetricsInit /\ ResolveIdle /\ TypologyIdle /\ DrillIdle /\ MergeIdle /\ RouteIdle
    /\ NormalizeIdle /\ GeometryIdle /\ SelectorIdle /\ ChurnIdle /\ OverlapIdle

Next ==
    \/ GetCachedIndex
    \/ BuildIndex
    \/ DatasetFetchFails
    \/ RequestPage
    \/ ReceiveFullPage
    \/ ReceiveLastPage
    \/ ReceiveError
    \/ CallAgain

Spec == Init /\ [][Next]_vars

\* resolveAdminHierarchy on a location text and an index.
InitResolve == ResolveInit /\ TypologyIdle /\ MetricsIdle /\ DrillIdle /\ MergeIdle /\ RouteIdle
    /\ NormalizeIdle /\ GeometryIdle /\ SelectorIdle /\ ChurnIdle /\ OverlapIdle

NextResolve ==
    \/ ResolveExtract
    \/ ResolveParishPass
    \/ ResolveMunicipalityPass
    \/ ResolveSkipMunicipalityPass
    \/ ResolveDistrictPass
    \/ ResolveSkipDistrictPass

SpecResolve == InitResolve /\ [][NextResolve]_vars

\* inferTypologyLabel on a title and a bedroom count.
InitTypology == TypologyInit /\ ResolveIdle /\ MetricsIdle /\ DrillIdle /\ MergeIdle /\ RouteIdle
    /\ NormalizeIdle /\ GeometryIdle /\ SelectorIdle /\ ChurnIdle /\ OverlapIdle

NextTypology ==
    \/ InferFromTitle
    \/ InferFromBedrooms
    \/ InferUnknown

SpecTypology == InitTypology /\ [][NextTypology]_vars

\* A drill-down into a bucket that the aggregation reports over the same table
\* and index.
InitDrill == DrillInit /\ ResolveIdle /\ TypologyIdle /\ MetricsIdle /\ MergeIdle /\ RouteIdle
    /\ NormalizeIdle /\ GeometryIdle /\ SelectorIdle /\ ChurnIdle /\ OverlapIdle

NextDrill ==
    \/ DrillRequestPage
    \/ DrillReceiveFullPage
    \/ DrillReceiveLastPage
    \/ DrillReceiveError

SpecDrill == InitDrill /\ [][NextDrill]_vars

\* One loop of the route over the rows of a dataset, upserting each into a Map.
InitMerge ==
    MergeInit /\ ResolveIdle /\ TypologyIdle /\ MetricsIdle /\ DrillIdle /\ RouteIdle
    /\ NormalizeIdle /\ GeometryIdle /\ SelectorIdle /\ ChurnIdle /\ OverlapIdle

NextMerge ==
    \/ UpsertNew
    \/ UpsertExisting

SpecMerge == InitMerge /\ [][NextMerge]_vars

\* The route and a client of it, over an external service that holds the same rows
\* throughout.
InitRoute ==
    RouteInit /\ ResolveIdle /\ TypologyIdle /\ MetricsIdle /\ DrillIdle /\ MergeIdle
    /\ NormalizeIdle /\ GeometryIdle /\ SelectorIdle /\ ChurnIdle /\ OverlapIdle

NextRoute ==
    \/ Tick
    \/ GetServesCached
    \/ GetStartsRefresh
    \/ PageContinues
    \/ PageEnds
    \/ GetResponds
    \/ GetFails
    \/ GetReturns
    \/ IndexCallHit
    \/ IndexCallMiss
    \/ IndexReceives
    \/ IndexFetchFails

SpecRoute == InitRoute /\ [][NextRoute]_vars

\* normalizeLocationPart on two texts and on a key.
InitNormalize ==
    NormalizeInit /\ ResolveIdle /\ TypologyIdle /\ MetricsIdle /\ DrillIdle /\ MergeIdle
    /\ RouteIdle /\ GeometryIdle /\ SelectorIdle /\ ChurnIdle /\ OverlapIdle

NextNormalize ==
    \/ NormalizeFirst
    \/ NormalizeSecond
    \/ NormalizeKey

SpecNormalize == InitNormalize /\ [][NextNormalize]_vars

\* One paginated scan at a time: the pass of getImportDashboardMetrics, a
\* drill-down, or the fetches of the route.
InitScans == Init \/ InitDrill \/ InitRoute

NextScans ==
    \/ Next
    \/ NextDrill
    \/ metricsPc = "idle" /\ drillPc = "idle" /\ NextRoute

SpecScans == InitScans /\ [][NextScans]_vars

\* A GET of one of the two geometry routes.
InitGeometry ==
    GeometryInit /\ ResolveIdle /\ TypologyIdle /\ MetricsIdle /\ DrillIdle /\ MergeIdle
    /\ RouteIdle /\ NormalizeIdle /\ SelectorIdle /\ ChurnIdle /\ OverlapIdle

NextGeometry ==
    \/ GeometryRejects
    \/ GeometryAsks
    \/ GeometryResponds
    \/ GeometryListAsks
    \/ GeometryListContinues
    \/ GeometryListResponds
    \/ GeometryFails

SpecGeometry == InitGeometry /\ [][NextGeometry]_vars

\* The admin area selector, from the list it is loaded with.
InitSelector ==
    SelectorInit /\ ResolveIdle /\ TypologyIdle /\ MetricsIdle /\ DrillIdle /\ MergeIdle
    /\ RouteIdle /\ NormalizeIdle /\ GeometryIdle /\ ChurnIdle /\ OverlapIdle

NextSelector ==
    \/ SelectorLoads
    \/ SelectorDefaults
    \/ SelectorPicks
    \/ SelectorAdds
    \/ SelectorRemoves
    \/ SelectorClicks

SpecSelector == InitSelector /\ [][NextSelector]_vars

\* The pass of getImportDashboardMetrics next to another caller of
\* getPortugalAdminIndex, whose GET the route answers from the external service.
SharedStore ==
    <<[id |-> 1] @@ Listing(TRUE, Buy, Finite(4), NULL, EvoraShouting),
      [id |-> 2] @@ Listing(TRUE, Rent, Finite(4), NiceFlat, MatosinhosPorto),
      [id |-> 3] @@ Listing(TRUE, Buy, NullNumber, T3Plus1ApartmentInCenter, AlvaladeLisboa)>>

InitShared ==
    /\ MetricsInit
    /\ listings_normalized = SharedStore
    /\ RouteInit
    /\ upstream = [rows |-> [d \in DatasetIds |-> 2], reportsTotal |-> FALSE]
    /\ ResolveIdle /\ TypologyIdle /\ DrillIdle /\ MergeIdle /\ NormalizeIdle
    /\ GeometryIdle /\ SelectorIdle /\ ChurnIdle /\ OverlapIdle

NextShared ==
    \/ GetCachedIndex
    \/ BuildIndex
    \/ RequestPage
    \/ ReceiveFullPage
    \/ ReceiveLastPage
    \/ CallAgain
    \/ IndexCallMiss
    \/ GetStartsRefresh
    \/ PageEnds
    \/ GetResponds
    \/ IndexReceives
    \/ IndexCallHit

SpecShared == InitShared /\ [][NextShared]_vars

\* A pass of getImportDashboardMetrics over a table whose rows are activated and
\* deactivated between its range requests.
InitChurn ==
    /\ MetricsInit /\ listings_normalized \in ChurnStores /\ ChurnInit
    /\ ResolveIdle /\ TypologyIdle /\ DrillIdle /\ MergeIdle /\ RouteIdle /\ NormalizeIdle
    /\ GeometryIdle /\ SelectorIdle /\ OverlapIdle

NextChurn ==
    \/ BuildIndex
    \/ RequestPage
    \/ ReceiveFullPage
    \/ ReceiveLastPage
    \/ ListingChanges

SpecChurn == InitChurn /\ [][NextChurn]_vars

\* Two GETs of /api/pt-admin that may be under way at once, and the clock.  The
\* external service holds two rows per dataset, so every fetch ends with its
\* first page.
InitRace ==
    /\ RouteInit /\ upstream.rows = [d \in DatasetIds |-> 2] /\ OverlapInit
    /\ ResolveIdle /\ TypologyIdle /\ MetricsIdle /\ DrillIdle /\ MergeIdle /\ NormalizeIdle
    /\ GeometryIdle /\ SelectorIdle /\ ChurnIdle

NextRace ==
    \/ Tick
    \/ TimePassesMeanwhile
    \/ GetServesCached
    \/ GetStartsRefresh
    \/ PageEnds
    \/ GetResponds
    \/ GetFails
    \/ GetReturns
    \/ OtherGetServesCached
    \/ OtherGetStartsRefresh
    \/ OtherPageArrives
    \/ OtherGetResponds
    \/ OtherGetFails
    \/ OtherGetReturns

SpecRace == InitRace /\ [][NextRace]_vars

(***************************************************************************)
(* Properties of the paginated pass (specification Spec)                   *)
(***************************************************************************)
RECURSIVE SumTotalCount(_)
SumTotalCount(buckets) ==
    IF buckets = <<>> THEN 0
    ELSE Head(buckets).total_count + SumTotalCount(Tail(buckets))

ActiveCount == Len(ActiveRows(listings_normalized))

Levels == {"district", "municipality", "parish"}

\* C1: once getImportDashboardMetrics has returned, the total_count of the
\* district buckets, of the municipality buckets, of the parish buckets and of
\* the typology buckets each add up to the number of rows the store sent over
\* all the pages of the call.
C1_TotalsAgree ==
    metricsPc = "done" =>
        /\ SumTotalCount(metrics[1].regions.district) = Len(processed)
        /\ SumTotalCount(metrics[1].regions.municipality) = Len(processed)
        /\ SumTotalCount(metrics[1].regions.parish) = Len(processed)
        /\ SumTotalCount(metrics[1].typologies) = Len(processed)

\* A call that returned after several pages, with several buckets at a level.
C1_Witness ==
    /\ metricsPc = "done"
    /\ Len(requested) >= 2
    /\ Len(processed) >= 3
    /\ Len(metrics[1].regions.parish) >= 2
    /\ Len(metrics[1].typologies) >= 2

\* C2 as stated: a call over N active rows with page size P has sent exactly
\* ceil(N / P) range requests when it returns.
C2_CeilingOfRequests ==
    metricsPc = "done" => Len(requested) = (ActiveCount + pageSize - 1) \div pageSize

\* C2 as amended: every request but the last was answered with a full page, the
\* call returns on the first page with fewer than P rows (an empty one when N is 0
\* or a multiple of P), and it has then sent floor(N / P) + 1 requests.
C2_RequestsUntilShortPage ==
    /\ \A k \in 1..(Len(requested) - 1) : Len(ResponseTo(requested[k])) = pageSize
    /\ metricsPc = "done" =>
          /\ Len(ResponseTo(requested[Len(requested)])) < pageSize
          /\ Len(requested) = (ActiveCount \div pageSize) + 1

\* A call over a table whose size is a multiple of the page size, and not zero.
C2_Witness ==
    /\ metricsPc = "done"
    /\ ActiveCount > 0
    /\ ActiveCount % pageSize = 0
    /\ Len(requested) = (ActiveCount \div pageSize) + 1

\* The group key at each level for a resolved hierarchy: the label, or the literal
\* Unknown where the level is null.
KeysFrom(resolved) ==
    [level \in Levels |->
        IF resolved[level] = NULL THEN <<"U", "n", "k", "n", "o", "w", "n">>
        ELSE resolved[level]]

\* The group keys of the rows received, in the order received.
ExpectedKeys ==
    [j \in 1..Len(processed) |->
        KeysFrom(resolveAdminHierarchy(processed[j].location_text, adminIndex[1]))]

BucketsCount(map, keys, level) ==
    /\ \A j \in DOMAIN keys :
          Cardinality({i \in 1..Len(map) : map[i].region = keys[j][level]}) = 1
    /\ \A i \in 1..Len(map) :
          map[i].total_count =
              Cardinality({j \in DOMAIN keys : keys[j][level] = map[i].region})

AllBucketsCount(keys) ==
    \A level \in Levels : BucketsCount(regionMaps[level], keys, level)

\* C3: every row received has added one to exactly one bucket of each level, the
\* bucket of the label the resolver gave at that level or the bucket Unknown where
\* it gave null; so each bucket counts the rows received that belong under its key.
C3_OneBucketPerLevel == adminIndex # <<>> => AllBucketsCount(ExpectedKeys)

\* Rows were received that resolve at the district level and not at the parish
\* level, next to a row that resolves at every level.
C3_Witness ==
    /\ Len(processed) >= 2
    /\ \E i \in 1..Len(regionMaps.parish) :
          /\ regionMaps.parish[i].region = Unknown
          /\ regionMaps.parish[i].total_count >= 1
    /\ \E i \in 1..Len(regionMaps.district) : regionMaps.district[i].region = Porto
    /\ \E i \in 1..Len(regionMaps.parish) : regionMaps.parish[i].region = Alvalade

\* C4: over a table that stays as it is, the k-th request asks for the range
\* [(k-1)P, kP - 1]; the rows received so far are the first active rows in id
\* order; and when the call returns, on a page of fewer than P rows, every active
\* row has been received and counted once.
C4_EveryActiveRowOnce ==
    /\ \A k \in 1..Len(requested) : requested[k] = <<(k - 1) * pageSize, k * pageSize - 1>>
    /\ processed = SubSeq(ActiveRows(listings_normalized), 1, Len(processed))
    /\ totalBuy + totalRent = Len(processed)
    /\ metricsPc = "done" =>
          /\ processed = ActiveRows(listings_normalized)
          /\ metrics[1].total_buy + metrics[1].total_rent = ActiveCount
          /\ Len(ResponseTo(requested[Len(requested)])) < pageSize

\* A call that returned after a full page and a short one that was not empty.
C4_Witness ==
    /\ metricsPc = "done"
    /\ Len(requested) = 2
    /\ pageSize > 1
    /\ Len(processed) > pageSize

\* The candidate tokens of a text, read off one character at a time: a delimiter
\* ends the token; blanks count only between two characters of a token.
RECURSIVE ScanTokens(_, _, _, _)
ScanTokens(text, tokens, token, blanks) ==
    IF text = <<>>
    THEN (IF token = <<>> THEN tokens ELSE Append(tokens, token))
    ELSE CASE Head(text) \in {",", "-", "|", "/", ";", "(", ")"} ->
                ScanTokens(Tail(text), IF token = <<>> THEN tokens ELSE Append(tokens, token),
                           <<>>, <<>>)
           [] Head(text) \in {" ", "\t", "\n", NBSP} ->
                ScanTokens(Tail(text), tokens, token,
                           IF token = <<>> THEN <<>> ELSE Append(blanks, Head(text)))
           [] OTHER ->
                ScanTokens(Tail(text), tokens, token \o blanks \o <<Head(text)>>, <<>>)

TokensOf(text) == IF text = NULL THEN <<>> ELSE ScanTokens(text, <<>>, <<>>, <<>>)

\* null, empty, or nothing but blanks and delimiters
NoToken(text) ==
    \/ text = NULL
    \/ \A i \in 1..Len(text) : text[i] \in {",", "-", "|", "/", ";", "(", ")", " ", "\t", "\n", NBSP}

UnknownCount(map) ==
    SumTotalCount(SelectSeq(map, LAMBDA bucket : bucket.region = Unknown))

\* C9: the candidates of a row's location text are its pieces between the
\* delimiters , - | / ; ( ), trimmed, the empty ones left out; a text that leaves
\* no candidate (null, empty, blanks only, delimiters only) resolves to null at
\* the three levels, and the row is counted under Unknown at each level.
C9_NoCandidateIsUnknown ==
    adminIndex # <<>> =>
        /\ \A j \in 1..Len(processed) :
              /\ extractLocationCandidates(processed[j].location_text)
                    = TokensOf(processed[j].location_text)
              /\ NoToken(processed[j].location_text) =>
                    /\ extractLocationCandidates(processed[j].location_text) = <<>>
                    /\ resolveAdminHierarchy(processed[j].location_text, adminIndex[1])
                          = [district |-> NULL, municipality |-> NULL, parish |-> NULL]
        /\ \A level \in Levels :
              UnknownCount(regionMaps[level]) >=
                  Cardinality({j \in 1..Len(processed) : NoToken(processed[j].location_text)})

\* A call that received a row whose text is null and a row whose text is made of
\* delimiters and blanks, and returned.
C9_Witness ==
    /\ metricsPc = "done"
    /\ \E j \in 1..Len(processed) : processed[j].location_text = NULL
    /\ \E j \in 1..Len(processed) : processed[j].location_text = DelimitersOnly
    /\ UnknownCount(metrics[1].regions.district) >= 2

(***************************************************************************)
(* Properties of the resolver (specification SpecResolve)                  *)
(***************************************************************************)
\* The NormalizedKey of each candidate token of the text of the call.
TokenKeys ==
    [i \in 1..Len(TokensOf(locationText)) |-> normalizeLocationPart(TokensOf(locationText)[i])]

\* The positions of the tokens whose key a map holds.
HitsIn(keys, map) == {i \in DOMAIN keys : keys[i] \in DOMAIN map}

First(positions) == CHOOSE i \in positions : \A j \in positions : i <= j

ParishFirst(keys, hits) ==
    hits # {} =>
        /\ parish = index.parishByKey[keys[First(hits)]].parish
        /\ municipality = index.parishByKey[keys[First(hits)]].municipality
        /\ district = index.parishByKey[keys[First(hits)]].district
        /\ passesRun = <<"parish">>

\* C5: when the call has returned and some candidate token's NormalizedKey is in the
\* parish map, then parish, municipality and district are those of the record of
\* the first such token in text order, and only the parish loop was entered. So
\* "Alvalade, Lisboa" with a parish Alvalade under municipality Lisboa gives that
\* parish, Lisboa and the district of that parish record.
C5_FirstParishHitWins ==
    resolvePc = "done" =>
        /\ ParishFirst(TokenKeys, HitsIn(TokenKeys, index.parishByKey))
        /\ ( /\ locationText = AlvaladeLisboa
             /\ <<"a", "l", "v", "a", "l", "a", "d", "e">> \in DOMAIN index.parishByKey
             /\ index.parishByKey[<<"a", "l", "v", "a", "l", "a", "d", "e">>].municipality
                   = Lisboa )
           => /\ parish = index.parishByKey[<<"a", "l", "v", "a", "l", "a", "d", "e">>].parish
              /\ municipality = Lisboa
              /\ district = index.parishByKey[<<"a", "l", "v", "a", "l", "a", "d", "e">>].district

\* A call that returned on a text of two tokens that are both parish keys: the
\* record of the first one is the answer.
C5_Witness ==
    /\ resolvePc = "done"
    /\ candidates = <<Lisboa, Alvalade>>
    /\ HitsIn(TokenKeys, index.parishByKey) = {1, 2}
    /\ parish = Lisboa
    /\ municipality = Evora
    /\ passesRun = <<"parish">>

NoParishHit(keys, municipalityHits, districtHits) ==
    /\ parish = NULL
    /\ municipalityHits # {} =>
          /\ municipality = index.municipalityByKey[keys[First(municipalityHits)]].municipality
          /\ district = index.municipalityByKey[keys[First(municipalityHits)]].district
          /\ passesRun = <<"parish", "municipality">>
    /\ municipalityHits = {} =>
          /\ municipality = NULL
          /\ passesRun = <<"parish", "municipality", "district">>
          /\ districtHits # {} => district = index.districtByKey[keys[First(districtHits)]]
          /\ districtHits = {} => district = NULL

ScenarioIndex ==
    [districtByKey |-> (<<"p", "o", "r", "t", "o">> :> Porto),
     municipalityByKey |->
         (<<"m", "a", "t", "o", "s", "i", "n", "h", "o", "s">> :>
              [municipality |-> Matosinhos, district |-> Porto]),
     parishByKey |-> <<>>]

\* C6: when the call has returned and no candidate token is a parish key, parish is
\* null; the first token in text order that is a municipality key gives
\* municipality and district from its record, and the district loop is not
\* entered; with no such token municipality is null, the district loop is entered,
\* and the first token that is a district key gives district alone. So "Matosinhos,
\* Porto" against districts {porto} and municipalities {matosinhos -> (Matosinhos,
\* Porto)} gives district Porto, municipality Matosinhos, parish null.
C6_MunicipalityThenDistrict ==
    resolvePc = "done" =>
        /\ HitsIn(TokenKeys, index.parishByKey) = {} =>
              NoParishHit(TokenKeys, HitsIn(TokenKeys, index.municipalityByKey),
                          HitsIn(TokenKeys, index.districtByKey))
        /\ (locationText = MatosinhosPorto /\ index = ScenarioIndex) =>
              /\ district = Porto
              /\ municipality = Matosinhos
              /\ parish = NULL

\* The scenario's call has returned, after the parish and the municipality loop.
C6_Witness ==
    /\ resolvePc = "done"
    /\ locationText = MatosinhosPorto
    /\ index = ScenarioIndex
    /\ passesRun = <<"parish", "municipality">>
    /\ municipality = Matosinhos

WholeTokenOnly(keys) ==
    /\ parish # NULL =>
          \E i \in HitsIn(keys, index.parishByKey) : index.parishByKey[keys[i]].parish = parish
    /\ municipality # NULL =>
          \/ \E i \in HitsIn(keys, index.parishByKey) :
                index.parishByKey[keys[i]].municipality = municipality
          \/ \E i \in HitsIn(keys, index.municipalityByKey) :
                index.municipalityByKey[keys[i]].municipality = municipality
    /\ district # NULL =>
          \/ \E i \in HitsIn(keys, index.parishByKey) :
                index.parishByKey[keys[i]].district = district
          \/ \E i \in HitsIn(keys, index.municipalityByKey) :
                index.municipalityByKey[keys[i]].district = district
          \/ \E i \in HitsIn(keys, index.districtByKey) : index.districtByKey[keys[i]] = district
    /\ HitsIn(keys, index.parishByKey) = {} =>
          /\ parish = NULL
          /\ HitsIn(keys, index.municipalityByKey) = {} =>
                /\ municipality = NULL
                /\ HitsIn(keys, index.districtByKey) = {} => district = NULL

\* C7: every level the call returns other than null is a label of an index record
\* whose key is the NormalizedKey of a whole candidate token of the text; a level
\* for which no whole token is a key, and which no more specific record gave, is
\* null, so a token that contains an indexed name, or is part of one, sets nothing.
C7_WholeTokenMatchesOnly == resolvePc = "done" => WholeTokenOnly(TokenKeys)

\* A call that returned null at every level on tokens that contain, and are
\* contained in, the name of a district of the index.
C7_Witness ==
    /\ resolvePc = "done"
    /\ candidates = <<PortoAlto, Port>>
    /\ <<"p", "o", "r", "t", "o">> \in DOMAIN index.districtByKey
    /\ Resolved = Unresolved

\* C8 as stated: "Rua das Flores 12" resolves to null at every level against any
\* index.
C8_StreetNeverResolves ==
    (resolvePc = "done" /\ locationText = RuaDasFlores12) => Resolved = Unresolved

StreetKey ==
    <<"r", "u", "a", " ", "d", "a", "s", " ", "f", "l", "o", "r", "e", "s", " ", "1", "2">>

\* C8 as amended: "Rua das Flores 12" has one candidate token, itself, and resolves
\* to null at every level against any index none of whose maps holds the key
\* "rua das flores 12"; an index whose parish map holds that key gives the levels
\* of that parish record.
C8_StreetResolvesByItsKeyOnly ==
    (resolvePc = "done" /\ locationText = RuaDasFlores12) =>
        /\ candidates = <<RuaDasFlores12>>
        /\ ( /\ StreetKey \notin DOMAIN index.parishByKey
             /\ StreetKey \notin DOMAIN index.municipalityByKey
             /\ StreetKey \notin DOMAIN index.districtByKey ) => Resolved = Unresolved
        /\ StreetKey \in DOMAIN index.parishByKey =>
              Resolved = [district |-> index.parishByKey[StreetKey].district,
                          municipality |-> index.parishByKey[StreetKey].municipality,
                          parish |-> index.parishByKey[StreetKey].parish]

\* The call has returned null at every level against an index that holds a parish
\* named by one word of the text.
C8_Witness ==
    /\ resolvePc = "done"
    /\ locationText = RuaDasFlores12
    /\ <<"f", "l", "o", "r", "e", "s">> \in DOMAIN index.parishByKey
    /\ Resolved = Unresolved

(***************************************************************************)
(* Properties of the typology label (specification SpecTypology)           *)
(***************************************************************************)
\* The first position after p that holds no blank (Len(s) + 1 when there is none).
NextNonBlank(s, p) ==
    CHOOSE q \in (p + 1)..(Len(s) + 1) :
        /\ \A k \in (p + 1)..(q - 1) : s[k] \in {" ", "\t", "\n", NBSP}
        /\ q <= Len(s) => s[q] \notin {" ", "\t", "\n", NBSP}

\* Positions from .. from + n - 1 hold digits, and the word ends with them.
NumberEndsWord(s, from, n) ==
    /\ from + n - 1 <= Len(s)
    /\ \A k \in from..(from + n - 1) : s[k] \in {"0", "1", "2", "3", "4", "5", "6", "7", "8", "9"}
    /\ from + n - 1 < Len(s) => ~IsWordChar(s[from + n])

NumberAt(s, from, n) ==
    /\ from + n - 1 <= Len(s)
    /\ \A k \in from..(from + n - 1) : s[k] \in {"0", "1", "2", "3", "4", "5", "6", "7", "8", "9"}

\* A word starts at position i with T or t.
TokenStart(s, i) == s[i] \in {"T", "t"} /\ (i > 1 => ~IsWordChar(s[i - 1]))

\* The labels of the typology tokens of s without an extra: T or t starting a
\* word, blanks, one or two digits ending a word.
BareTokenLabels(s) ==
    {<<"T">> \o SubSeq(s, NextNonBlank(s, t[1]), NextNonBlank(s, t[1]) + t[2] - 1) :
        t \in {u \in (1..Len(s)) \X {1, 2} :
                  /\ TokenStart(s, u[1])
                  /\ NumberEndsWord(s, NextNonBlank(s, u[1]), u[2])}}

PlusAfter(s, p) == NextNonBlank(s, p) <= Len(s) /\ s[NextNonBlank(s, p)] = "+"

\* The labels of the tokens with an extra: then blanks, +, blanks, one or two digits
\* ending a word.
ExtraTokenLabels(s) ==
    {<<"T">> \o SubSeq(s, NextNonBlank(s, t[1]), NextNonBlank(s, t[1]) + t[2] - 1) \o <<"+">>
         \o SubSeq(s, NextNonBlank(s, NextNonBlank(s, NextNonBlank(s, t[1]) + t[2] - 1)),
                   NextNonBlank(s, NextNonBlank(s, NextNonBlank(s, t[1]) + t[2] - 1)) + t[3] - 1) :
        t \in {u \in (1..Len(s)) \X {1, 2} \X {1, 2} :
                  /\ TokenStart(s, u[1])
                  /\ NumberAt(s, NextNonBlank(s, u[1]), u[2])
                  /\ PlusAfter(s, NextNonBlank(s, u[1]) + u[2] - 1)
                  /\ NumberEndsWord(s,
                         NextNonBlank(s, NextNonBlank(s, NextNonBlank(s, u[1]) + u[2] - 1)),
                         u[3])}}

\* The integer nearest to halves / 2, the half going up.
Rounded(halves) == CHOOSE r \in 0..(halves + 1) : 2 * r - 1 <= halves /\ halves < 2 * r + 1

PriorityHolds(tokenLabels) ==
    /\ tokenLabels # {} => typology \in tokenLabels
    /\ (tokenLabels = {} /\ bedrooms.kind = "finite" /\ bedrooms.halves >= 0) =>
          typology = <<"T">> \o DecimalString(Rounded(bedrooms.halves))
    /\ (tokenLabels = {} /\ ~(bedrooms.kind = "finite" /\ bedrooms.halves >= 0)) =>
          typology = <<"U", "n", "k", "n", "o", "w", "n">>

\* The labels of the tokens in which nothing stands between the T and the digits,
\* nor around the +: T or t starting a word, one or two digits, optionally + and
\* one or two digits, ending a word.
AdjacentTokenLabels(s) ==
    {<<"T">> \o SubSeq(s, t[1] + 1, t[1] + t[2]) :
        t \in {u \in (1..Len(s)) \X {1, 2} :
                  TokenStart(s, u[1]) /\ NumberEndsWord(s, u[1] + 1, u[2])}}
    \cup
    {<<"T">> \o SubSeq(s, t[1] + 1, t[1] + t[2]) \o <<"+">>
         \o SubSeq(s, t[1] + t[2] + 2, t[1] + t[2] + 1 + t[3]) :
        t \in {u \in (1..Len(s)) \X {1, 2} \X {1, 2} :
                  /\ TokenStart(s, u[1])
                  /\ NumberAt(s, u[1] + 1, u[2])
                  /\ u[1] + u[2] + 1 <= Len(s)
                  /\ s[u[1] + u[2] + 1] = "+"
                  /\ NumberEndsWord(s, u[1] + u[2] + 2, u[3])}}

\* C10 as stated: with a token being T or t, one or two digits, optionally + and
\* one or two digits, the label is that of a token of the title when it has one,
\* else T<round(bedrooms)> for a finite bedroom count >= 0, else "Unknown".
C10_PriorityOfAdjacentToken ==
    typologyPc = "done" => PriorityHolds(AdjacentTokenLabels(OrEmpty(title)))

\* C10 as amended: a typology token is T or t at the start of a word, blanks or
\* none, one or two digits, and optionally blanks or none, +, blanks or none, one
\* or two digits, ending where the word ends ("t 4 + 1" is one, the T3 of "aT3"
\* and of "T3a" is none). The label is T<base> or T<base>+<extra> of such a token
\* of the title when it has one, whatever the bedroom count; else, when the
\* bedroom count is a finite number >= 0, T followed by the count rounded; else
\* "Unknown". And infer("T3+1 apartment in center", null) = "T3+1",
\* infer("Nice flat", 2) = "T2", infer("Nice flat", null) = "Unknown".
C10_TypologyPriority ==
    typologyPc = "done" =>
        /\ PriorityHolds(BareTokenLabels(OrEmpty(title)) \cup ExtraTokenLabels(OrEmpty(title)))
        /\ (title = T3Plus1ApartmentInCenter /\ bedrooms = NullNumber) =>
              typology = <<"T", "3", "+", "1">>
        /\ (title = NiceFlat /\ bedrooms = Finite(4)) => typology = <<"T", "2">>
        /\ (title = NiceFlat /\ bedrooms = NullNumber) => typology = Unknown

\* A call that returned the label of a token written with blanks although the
\* bedroom count was a number.
C10_Witness ==
    /\ typologyPc = "done"
    /\ title = SpacedToken
    /\ bedrooms = Finite(4)
    /\ typology = <<"T", "4", "+", "1">>

\* Positions from .. to of s hold digits, at least least and at most most of them.
DigitRun(s, from, to, least, most) ==
    /\ to - from + 1 >= least
    /\ to - from + 1 <= most
    /\ \A k \in from..to : s[k] \in {"0", "1", "2", "3", "4", "5", "6", "7", "8", "9"}

\* C11 as stated: the label returned is "Unknown", or T and one base digit 0-9,
\* optionally followed by + and an extra count.
C11_SingleBaseDigit ==
    typologyPc = "done" =>
        \/ typology = <<"U", "n", "k", "n", "o", "w", "n">>
        \/ /\ Len(typology) >= 2
           /\ typology[1] = "T"
           /\ DigitRun(typology, 2, 2, 1, 1)
           /\ Len(typology) > 2 =>
                 typology[3] = "+" /\ DigitRun(typology, 4, Len(typology), 1, Len(typology))

\* T, a base of digits that ends at position k, and optionally + and an extra of
\* one or two digits; the base has at most mostBase digits.
LabelShape(label_, k, mostBase) ==
    /\ label_[1] = "T"
    /\ DigitRun(label_, 2, k, 1, mostBase)
    /\ k < Len(label_) =>
          /\ mostBase = 2
          /\ label_[k + 1] = "+"
          /\ DigitRun(label_, k + 2, Len(label_), 1, 2)

\* C11 as amended: the label returned is "Unknown", or T and a base, optionally
\* followed by + and an extra of one or two digits. The base of a label taken from
\* the title is the one or two digits of the token as written (T33, T03); the
\* base of a label taken from the bedroom count is the rounded count in decimal,
\* of however many digits (T12), and has no extra.
C11_LabelShapes ==
    typologyPc = "done" =>
        \/ typology = <<"U", "n", "k", "n", "o", "w", "n">>
        \/ /\ TypologyMatch(OrEmpty(title)).matched
           /\ \E k \in 2..Len(typology) : LabelShape(typology, k, 2)
        \/ /\ ~TypologyMatch(OrEmpty(title)).matched
           /\ LabelShape(typology, Len(typology), Len(typology))

\* A call that returned a label with a base of two digits.
C11_Witness ==
    /\ typologyPc = "done"
    /\ title = <<"T", "3", "3">>
    /\ typology = <<"T", "3", "3">>

(***************************************************************************)
(* Properties of the order of the buckets (specification Spec)             *)
(***************************************************************************)
\* The position of a label in a list of labels.
RankIn(labels, label_) == CHOOSE i \in 1..Len(labels) : labels[i] = label_

\* The region labels of the served dataset and "Unknown", as Portuguese sorts
\* them: the accent of Évora does not move it after the unaccented letters.
RegionsInPortugueseOrder == <<Alvalade, Evora, Lisboa, Matosinhos, Porto, Unknown>>

\* Each bucket of the list has more rows than the next, or as many and a label
\* that comes earlier in labels.
OrderedByCountThenLabel(buckets, labelOf, labels) ==
    \A i \in 1..(Len(buckets) - 1) :
        \/ buckets[i].total_count > buckets[i + 1].total_count
        \/ /\ buckets[i].total_count = buckets[i + 1].total_count
           /\ RankIn(labels, buckets[i][labelOf]) < RankIn(labels, buckets[i + 1][labelOf])

SameBuckets(list, map) ==
    Len(list) = Len(map) /\ {list[i] : i \in 1..Len(list)} = {map[i] : i \in 1..Len(map)}

\* C12: in the value getImportDashboardMetrics returns, each of the three region
\* lists holds the buckets of its map, by total_count from the largest down, and
\* buckets of equal total_count by label as Portuguese sorts them; the bucket
\* Unknown stands where its count and its name put it.
C12_RegionsByCountThenName ==
    metricsPc = "done" =>
        \A level \in Levels :
            /\ SameBuckets(metrics[1].regions[level], regionMaps[level])
            /\ OrderedByCountThenLabel(metrics[1].regions[level], "region",
                                       RegionsInPortugueseOrder)

\* A call that returned Unknown first among the parishes, having the most rows,
\* and three districts of one row each with Évora before Lisboa.
C12_Witness ==
    /\ metricsPc = "done"
    /\ Len(metrics[1].regions.parish) = 2
    /\ metrics[1].regions.parish[1].region = Unknown
    /\ Len(metrics[1].regions.district) = 3
    /\ [i \in 1..3 |-> metrics[1].regions.district[i].region] = <<Evora, Lisboa, Porto>>
    /\ metrics[1].regions.district[1].total_count = metrics[1].regions.district[3].total_count

TypologiesInPortugueseOrder ==
    << <<"T", "2">>, <<"T", "3">>, <<"T", "3", "+", "1">>, <<"T", "4", "+", "1">> >>

WithoutUnknown(buckets) == SelectSeq(buckets, LAMBDA bucket : bucket.typology # Unknown)

\* C13: in the typology list getImportDashboardMetrics returns, the bucket Unknown,
\* when there is one, is the last whatever its count; the buckets before it are by
\* total_count from the largest down, and those of equal total_count by label
\* as Portuguese sorts them.
C13_UnknownTypologyLast ==
    metricsPc = "done" =>
        /\ SameBuckets(metrics[1].typologies, typologyMap)
        /\ \A i \in 1..Len(metrics[1].typologies) :
              metrics[1].typologies[i].typology = Unknown => i = Len(metrics[1].typologies)
        /\ OrderedByCountThenLabel(WithoutUnknown(metrics[1].typologies), "typology",
                                   TypologiesInPortugueseOrder)

\* A call that returned Unknown last although it has the most rows.
C13_Witness ==
    /\ metricsPc = "done"
    /\ Len(metrics[1].typologies) = 2
    /\ metrics[1].typologies[2].typology = Unknown
    /\ metrics[1].typologies[2].total_count > metrics[1].typologies[1].total_count

(***************************************************************************)
(* Properties of the drill-downs (specification SpecDrill)                 *)
(***************************************************************************)
\* The ids of the rows the aggregation counts under the bucket of the call.
CountedUnderBucket ==
    {row.id : row \in
        {r \in {drillTable[i] : i \in 1..Len(drillTable)} :
            /\ r.is_active
            /\ IF drillBy = "region"
               THEN RegionKeys(r, drillIndex)[drillLevel] = drillLabel
               ELSE inferTypologyLabel(r.bedrooms, r.title) = drillLabel}}

\* C14: over a table that stays as it is and with the index of the aggregation, a
\* drill-down into a bucket the aggregation reports returns the rows the
\* aggregation counted under that bucket, each once: as many rows as the
\* bucket's total_count.
C14_DrillDownReturnsTheBucket ==
    drillPc = "done" =>
        /\ Len(drillOut) = Cardinality(CountedUnderBucket)
        /\ {drillOut[i] : i \in 1..Len(drillOut)} = CountedUnderBucket

(***************************************************************************)
(* Properties of the index builder (specification SpecResolve)             *)
(***************************************************************************)
\* A field that is absent, empty, or made of white space only.
BlankField(v) == IsNull(v) \/ \A i \in 1..Len(v) : v[i] \in {" ", "\t", "\n", NBSP}

\* C19: the index holds no parish entry whose municipality or district is empty or
\* blank, and no municipality entry whose district is empty or blank.
C19_NoEntryWithBlankParent ==
    /\ \A k \in DOMAIN index.parishByKey :
          /\ ~BlankField(index.parishByKey[k].parish)
          /\ ~BlankField(index.parishByKey[k].municipality)
          /\ ~BlankField(index.parishByKey[k].district)
    /\ \A k \in DOMAIN index.municipalityByKey :
          /\ ~BlankField(index.municipalityByKey[k].municipality)
          /\ ~BlankField(index.municipalityByKey[k].district)

\* The index built from a dataset that has records with blank parent fields next
\* to a district that is entered, in a call that ran to its end.
C19_Witness ==
    /\ resolvePc = "done"
    /\ index = buildPortugalAdminIndex(BlankDataset)
    /\ DOMAIN index.districtByKey # {}
    /\ \E i \in 1..Len(BlankDataset.parishes) : BlankField(BlankDataset.parishes[i].district)
    /\ \E i \in 1..Len(BlankDataset.municipalities) :
          BlankField(BlankDataset.municipalities[i].district)

(***************************************************************************)
(* Properties of upsertAreaOption (specification SpecMerge)                *)
(***************************************************************************)
RECURSIVE UpsertAll(_, _)
UpsertAll(map, items) ==
    IF items = <<>> THEN map
    ELSE UpsertAll(upsertAreaOption(map, Head(items).id, Head(items)), Tail(items))

\* The arrival orders of the items of the loop.
Orders(n) == {o \in [1..n -> 1..n] : \A i, j \in 1..n : i # j => o[i] # o[j]}

\* Per key, what the claim compares: lat, lng and sample_count.
Centroids(map) ==
    {<<map[i].key, map[i].value.lat, map[i].value.lng, map[i].value.sample_count>> :
        i \in 1..Len(map)}

\* C20: once the loop has passed every item, the Map holds for each key the lat,
\* lng and sample_count that any other arrival order of the same items gives.
C20_MergeIsOrderIndependent ==
    upserted = Len(arrivals) =>
        \A o \in Orders(Len(arrivals)) :
            Centroids(UpsertAll(<<>>, [i \in 1..Len(arrivals) |-> arrivals[o[i]]]))
                = Centroids(areaMap)

(***************************************************************************)
(* Properties of the route and of the index cache (specification SpecRoute)*)
(***************************************************************************)
TwelveHours == 12 * 60 * 60 * 1000

\* C15: a call of getPortugalAdminIndex made more than 12 hours after the index in
\* the cache was built does not return that index: what a call returns was built
\* at most 12 hours before the call.
C15_IndexRebuiltAfterTTL ==
    indexPc = "returned" => indexCalledAt - indexBuiltAt <= TwelveHours

\* C16: a GET that arrives less than 12 hours after the timestamp of the cached
\* entry answers with the cached dataset and asks the external service nothing; a
\* GET that finds no entry, or one of 12 hours or more, asks for the first page of
\* each of the three datasets.
C16_CacheWindow ==
    routePc # "idle" =>
        IF cachedBefore # <<>> /\ getNow - cachedBefore[1].at < TwelveHours
        THEN /\ routePc = "responded"
             /\ response = <<[status |-> 200, body |-> cachedBefore[1].data]>>
             /\ cached = cachedBefore
             /\ \A d \in DatasetIds : fetch[d].asked = <<>>
        ELSE \A d \in DatasetIds : fetch[d].asked # <<>> /\ fetch[d].asked[1] = 0

\* A GET answered from an entry that is one millisecond short of 12 hours old.
C16_Witness ==
    /\ routePc = "responded"
    /\ cachedBefore # <<>>
    /\ getNow - cachedBefore[1].at = TwelveHours - 1
    /\ response[1].status = 200

\* The statuses that answered the page requests of the GET in hand.
StatusesReceived ==
    UNION {{fetch[d].statuses[i] : i \in 1..Len(fetch[d].statuses)} : d \in DatasetIds}

\* C17: when a page request of a refresh is answered with a status that is not a
\* success, the GET answers with an error and no dataset, the cache entry is what
\* it was before the GET, and no offset is asked for again: the failed fetch made
\* as many requests as it got answers.
C17_FailureIsTerminal ==
    (routePc = "responded" /\ \E status \in StatusesReceived : status \notin 200..299) =>
        /\ response = <<[status |-> 502, body |-> "message"]>>
        /\ cached = cachedBefore
        /\ \A d \in DatasetIds :
              /\ \A i, j \in 1..Len(fetch[d].asked) : i # j => fetch[d].asked[i] # fetch[d].asked[j]
              /\ fetch[d].pc = "failed" => Len(fetch[d].asked) = Len(fetch[d].statuses)

\* A refresh that failed after pages had been received, an entry being cached.
C17_Witness ==
    /\ routePc = "responded"
    /\ response[1].status = 502
    /\ cachedBefore # <<>>
    /\ cached = cachedBefore
    /\ \E d \in DatasetIds : Len(fetch[d].out) >= LIMIT

RECURSIVE SumOfFirst(_, _)
SumOfFirst(counts, k) == IF k = 0 THEN 0 ELSE SumOfFirst(counts, k - 1) + counts[k]

\* The page that the k-th request of a call got is one at which the loop stops.
StoppingPage(d, k) ==
    \/ fetch[d].got[k] < 100
    \/ upstream.reportsTotal /\ fetch[d].asked[k] + fetch[d].got[k] >= upstream.rows[d]

\* C18: every request of fetchAllPages has the offset of the rows received so far;
\* out is the rows of the pages in their order; the loop stops at the first page
\* that has fewer than 100 rows or brings the offset to the reported total_count,
\* and at no other; it makes no more requests than the dataset has pages, plus
\* one; and what it returns is the rows of the dataset, each once.
C18_FetchAllPages ==
    \A d \in DatasetIds :
        /\ \A k \in 1..Len(fetch[d].asked) :
              fetch[d].asked[k] = SumOfFirst(fetch[d].got, k - 1)
        /\ Len(fetch[d].out) = SumOfFirst(fetch[d].got, Len(fetch[d].got))
        /\ \A i \in 1..Len(fetch[d].out) : fetch[d].out[i] = UpstreamRow(d, i)
        /\ \A k \in 1..Len(fetch[d].got) :
              StoppingPage(d, k) <=> (k = Len(fetch[d].got) /\ fetch[d].pc = "done")
        /\ Len(fetch[d].asked) <= (upstream.rows[d] \div 100) + 1
        /\ fetch[d].pc = "done" => Len(fetch[d].out) = upstream.rows[d]

\* A call that returned the rows of a dataset of more than one page.
C18_Witness ==
    \E d \in DatasetIds :
        /\ fetch[d].pc = "done"
        /\ fetch[d].asked = <<0, 100>>
        /\ Len(fetch[d].out) = 101

(***************************************************************************)
(* Properties of key collisions in the index (specification SpecResolve)   *)
(***************************************************************************)
\* The records of a level that the builder enters: those whose label, and whose
\* parents as far as the level has them, are not blank.
AcceptedAt(level, record) ==
    /\ ~BlankField(record.label)
    /\ level \in {"municipality", "parish"} => ~BlankField(record.district)
    /\ level = "parish" => ~BlankField(record.municipality)

\* The entry the builder makes of a record.
EntryOf(level, record) ==
    IF level = "district" THEN trim(record.label)
    ELSE IF level = "municipality"
         THEN [municipality |-> trim(record.label), district |-> trim(record.district)]
    ELSE [parish |-> trim(record.label), municipality |-> trim(record.municipality),
          district |-> trim(record.district)]

\* The positions of the accepted records of a level that give a key.
PositionsOfKey(level, records, key) ==
    {i \in 1..Len(records) :
        /\ AcceptedAt(level, records[i])
        /\ normalizeLocationPart(records[i].label) = key}

LastRecordWins(level, records, map) ==
    /\ DOMAIN map =
          {normalizeLocationPart(records[i].label) :
              i \in {j \in 1..Len(records) : AcceptedAt(level, records[j])}}
    /\ \A key \in DOMAIN map :
          \E last \in PositionsOfKey(level, records, key) :
              /\ \A i \in PositionsOfKey(level, records, key) : i <= last
              /\ map[key] = EntryOf(level, records[last])

\* C21: each map of the index has one entry for each key that an accepted record
\* of its level gives, and the entry is made of the last accepted record in the
\* input that gives the key.
C21_LaterRecordReplaces ==
    \A dataset_ \in Datasets :
        index = buildPortugalAdminIndex(dataset_) =>
            /\ LastRecordWins("district", dataset_.districts, index.districtByKey)
            /\ LastRecordWins("municipality", dataset_.municipalities,
                              index.municipalityByKey)
            /\ LastRecordWins("parish", dataset_.parishes, index.parishByKey)

\* The index of a dataset with two parishes of one name in different
\* municipalities holds the second one, in a call that ran to its end.
C21_Witness ==
    /\ resolvePc = "done"
    /\ index = buildPortugalAdminIndex(CollidingDataset)
    /\ Cardinality(PositionsOfKey("parish", CollidingDataset.parishes,
                                  normalizeLocationPart(Alvalade))) = 2
    /\ index.parishByKey[normalizeLocationPart(Alvalade)].municipality = Matosinhos

(***************************************************************************)
(* Properties of normalizeLocationPart (specification SpecNormalize)       *)
(***************************************************************************)
\* Two texts differ in case, accents and white space only: they are writings of
\* the same words.
SameWords(a, b) == \E words \in WordLists : a \in Writings(words) /\ b \in Writings(words)

LisboaPadded ==
    <<"L", "i", "s", "b", "o", "a", " ">>

\* C22: two texts that differ only in the case of letters, in accents, in white
\* space around them and in the length of runs of white space inside them get the
\* same key; so do "Lisboa ", "lisboa" and "Lisboa", and "Évora" and "evora"; and
\* the key of a key is the key itself.
C22_NormalizationIsInsensitive ==
    /\ (Len(normalizeKeys) >= 2 /\ SameWords(normalizeArgs[1], normalizeArgs[2]))
          => normalizeKeys[1] = normalizeKeys[2]
    /\ (Len(normalizeKeys) >= 2 /\ normalizeArgs[1] = LisboaPadded
          /\ normalizeArgs[2] \in {LisboaLower, Lisboa})
          => normalizeKeys[1] = normalizeKeys[2]
    /\ (Len(normalizeKeys) >= 2 /\ normalizeArgs[1] = Evora /\ normalizeArgs[2] = EvoraPlain)
          => normalizeKeys[1] = normalizeKeys[2]
    /\ Len(normalizeKeys) = 3 => normalizeKeys[3] = normalizeKeys[1]

\* The three calls were made on two writings of the same two words that differ in
\* case, accent, padding and gap, and on the key.
C22_Witness ==
    /\ Len(normalizeKeys) = 3
    /\ normalizeArgs[1] # normalizeArgs[2]
    /\ normalizeArgs[1] = <<"\t">> \o Lisboa \o <<" ", "\t">> \o EvoraDecomposedUpper \o <<NBSP, " ">>
    /\ normalizeArgs[2] = LisboaLower \o <<" ">> \o EvoraPlain
    /\ normalizeKeys[1] = normalizeArgs[2]

(***************************************************************************)
(* Properties of the resolved hierarchy (specification SpecResolve)        *)
(***************************************************************************)
\* C26: the hierarchy resolveAdminHierarchy returns is downward-closed: with a
\* parish it has a municipality and a district, and with a municipality it has a
\* district.
C26_HierarchyIsDownwardClosed ==
    resolvePc = "done" =>
        /\ Resolved.parish # NULL => Resolved.municipality # NULL /\ Resolved.district # NULL
        /\ Resolved.municipality # NULL => Resolved.district # NULL

\* A call returned a parish together with its municipality and its district.
C26_Witness ==
    /\ resolvePc = "done"
    /\ index = buildPortugalAdminIndex(CollidingDataset)
    /\ Resolved.parish = Alvalade
    /\ Resolved.municipality = Matosinhos
    /\ Resolved.district = Porto

(***************************************************************************)
(* Properties of the buy and rent counters (specification Spec)            *)
(***************************************************************************)
RentRows(rows) == Cardinality({j \in 1..Len(rows) : rows[j].listing_type = Rent})

BucketsAddUp(buckets) ==
    \A i \in 1..Len(buckets) :
        /\ buckets[i].buy_count + buckets[i].rent_count = buckets[i].total_count
        /\ buckets[i].total_count >= 1

\* C29: every row received counts as rent when its listing_type is "rent" and as
\* buy otherwise, a missing listing_type included; so the two totals add up to the
\* number of rows received, in the locals and in the value returned, and every
\* region bucket and typology bucket has buy_count + rent_count = total_count and
\* total_count >= 1.
C29_BuyPlusRentIsTotal ==
    /\ totalRent = RentRows(processed)
    /\ totalBuy = Len(processed) - RentRows(processed)
    /\ \A level \in Levels : BucketsAddUp(regionMaps[level])
    /\ BucketsAddUp(typologyMap)
    /\ metricsPc = "done" =>
          /\ metrics[1].total_buy + metrics[1].total_rent = Len(processed)
          /\ metrics[1].total_rent = RentRows(processed)
          /\ \A level \in Levels : BucketsAddUp(metrics[1].regions[level])
          /\ BucketsAddUp(metrics[1].typologies)

\* A call returned after it received a row for rent, a row for sale and a row
\* without a listing_type.
C29_Witness ==
    /\ metricsPc = "done"
    /\ Len(processed) = 3
    /\ \E j \in 1..Len(processed) : processed[j].listing_type = NULL
    /\ \E j \in 1..Len(processed) : processed[j].listing_type = Buy
    /\ metrics[1].total_rent = 1
    /\ metrics[1].total_buy = 2

(***************************************************************************)
(* Properties of the paginated scans (specification SpecScans)             *)
(***************************************************************************)
\* The requests of a call of fetchAllPages that have no response yet.
FetchInFlight(call) == Len(call.asked) - Len(call.statuses)

\* C23: a scan has at most one page request without its response.  The pass of
\* getImportDashboardMetrics asks for page k only when pages 1 to k - 1 came in
\* full and were counted; a drill-down awaits one response at most; and a call of
\* fetchAllPages asks for a page at the offset that the rows of all the pages
\* before it add up to.
C23_OnePageInFlight ==
    /\ Cardinality(inFlight) <= 1
    /\ inFlight # {} <=> metricsPc = "await"
    /\ inFlight # {} =>
          /\ inFlight = {requested[Len(requested)]}
          /\ Len(processed) = pageSize * (Len(requested) - 1)
    /\ Len(drillPage) <= 1
    /\ drillPage # <<>> <=> drillPc = "await"
    /\ \A d \in DatasetIds :
          /\ FetchInFlight(fetch[d]) \in {0, 1}
          /\ fetch[d].pc = "await" => FetchInFlight(fetch[d]) = 1
          /\ \A k \in 1..Len(fetch[d].asked) :
                /\ k - 1 <= Len(fetch[d].got)
                /\ fetch[d].asked[k] = SumOfFirst(fetch[d].got, k - 1)

\* The pass has its second page request in flight after a first full page.
C23_Witness ==
    /\ metricsPc = "await"
    /\ Len(requested) = 2
    /\ Cardinality(inFlight) = 1
    /\ Len(processed) = pageSize

(***************************************************************************)
(* Properties of the geometry routes (specification SpecGeometry)          *)
(***************************************************************************)
\* C25: a GET of the geometry route or of the geometry-list route whose level is
\* none of district, municipality and parish sends no request to the external
\* service, and the response it gets is the error 400.
C25_InvalidLevelRejectedBeforeFetch ==
    (geoPc # "idle" /\ LevelOf(geoRequest.level) \notin {"district", "municipality", "parish"})
        => /\ geoSent = <<>>
           /\ geoPc \in {"start", "responded"}
           /\ geoPc = "responded" => geoResponse = <<[status |-> 400, body |-> "message"]>>

\* A GET of the geometry-list route with the level "country" was answered.
C25_Witness ==
    /\ geoPc = "responded"
    /\ geoRequest.route = "geometry-list"
    /\ geoRequest.level = <<"country">>
    /\ geoResponse[1].status = 400
    /\ geoSent = <<>>

(***************************************************************************)
(* Properties of the selection list (specification SpecSelector)           *)
(***************************************************************************)
\* The key of a selection: the country in capitals; the district, the
\* municipality and the parish in small letters.
KeyOfSelection(item) ==
    <<toUpperCase(item.country), toLowerCase(item.district), toLowerCase(item.municipality),
      toLowerCase(item.parish)>>

NoTwoOfOneKey(list) ==
    \A i, j \in 1..Len(list) : KeyOfSelection(list[i]) = KeyOfSelection(list[j]) => i = j

\* The list has, for each key of the items given, the last item given with the
\* key, its country in capitals, and nothing else.
LastGivenPerKey(given, list) ==
    /\ NoTwoOfOneKey(list)
    /\ {KeyOfSelection(list[i]) : i \in 1..Len(list)}
          = {KeyOfSelection(given[i]) : i \in 1..Len(given)}
    /\ \A i \in 1..Len(given) :
          (\A j \in (i + 1)..Len(given) : KeyOfSelection(given[j]) # KeyOfSelection(given[i]))
              => \E k \in 1..Len(list) :
                    list[k] = [given[i] EXCEPT !.country = toUpperCase(given[i].country)]

\* C30: the list of the selector never holds two items of one key; what
\* dedupeAdminSelections returns, on load, on add and on a click on a polygon, has
\* for each key given the last item given with it, and is returned as it is when
\* it is passed through dedupeAdminSelections again; and after a removal the list
\* holds no item with the key of the item removed.
C30_SelectionsHaveDistinctKeys ==
    /\ NoTwoOfOneKey(selectorValue)
    /\ selectorCall.op \in {"load", "add", "click"} =>
          /\ LastGivenPerKey(selectorCall.given, selectorValue)
          /\ dedupeAdminSelections(selectorValue) = selectorValue
    /\ selectorCall.op = "remove" =>
          \A i \in 1..Len(selectorValue) :
              KeyOfSelection(selectorValue[i]) # KeyOfSelection(selectorCall.given[1])

\* A click on a polygon gave an item whose key the list had, written differently:
\* the list keeps its length and holds the item as the click gave it.
C30_Witness ==
    /\ selectorCall.op = "click"
    /\ Len(selectorCall.given) = Len(selectorValue) + 1
    /\ Len(selectorValue) >= 2
    /\ \E i \in 1..Len(selectorValue) :
          /\ selectorValue[i] = AdminSelection(PT, LisboaUpper, Lisboa, <<>>)
          /\ \E j \in 1..(Len(selectorCall.given) - 1) :
                selectorCall.given[j] = AdminSelection(PT, Lisboa, Lisboa, <<>>)

(***************************************************************************)
(* Properties of a pass next to a rebuild (specification SpecShared)       *)
(***************************************************************************)
\* The group keys of the rows received, by a given index.
KeysBy(index_) ==
    [j \in 1..Len(processed) |->
        KeysFrom(resolveAdminHierarchy(processed[j].location_text, index_))]

\* What a step leaves as it is: the index a running pass holds, whatever happens
\* to the module's cache, and the index that another caller was returned.
IndexesStay ==
    /\ (adminIndex # <<>> /\ metricsPc \notin {"done", "failed"}) => adminIndex' = adminIndex
    /\ (indexReturned # <<>> /\ indexPc' = indexPc) => indexReturned' = indexReturned

StayedActive ==
    {row \in {listings_normalized[i] : i \in 1..Len(listings_normalized)} :
        row.is_active /\ \A c \in 1..Len(changes) : changes[c] # row.id}

\* How often the call received the row with this id.
TimesReceived(id_) == Cardinality({j \in 1..Len(processed) : processed[j].id = id_})

\* C27: when the call has returned, every listing that stayed active throughout
\* was received, and so counted, exactly once, whatever was written to the other
\* rows between the range requests.
C27_StayedActiveCountedOnce ==
    metricsPc = "done" => \A row \in StayedActive : TimesReceived(row.id) = 1

(***************************************************************************)
(* Properties of two GETs at once (specification SpecRace)                 *)
(***************************************************************************)
\* C28: whatever the order in which the steps of two GETs of /api/pt-admin fall,
\* no step replaces the cache entry by one with an earlier timestamp: a refresh
\* that began earlier never overwrites the entry of one that began later.
C28_CacheTimestampNeverDecreases ==
    [][(cached # <<>> /\ cached' # <<>>) => cached'[1].at >= cached[1].at]_vars

====
